---- MODULE Spec2Model ----
(***************************************************************************)
(* Air-quality dashboard: the AQI classifier and number formatter of the   *)
(* Next.js front end (frontend/lib/air-quality-constants.ts), of the       *)
(* migration utilities (nextjs_utils_constants.js) and of the vanilla      *)
(* prototype (frontend2/script.js); the SWR data hooks of                  *)
(* frontend/lib/air-quality-api.ts with the components that render them;   *)
(* and the prototype's loaders.                                            *)
(*                                                                         *)
(* JavaScript values are records [k, v]: k = "num" carries a number in     *)
(* tenths (v = 425 is 42.5), k = "nan" is NaN, k = "null" and              *)
(* k = "undefined" are the two absent values.                              *)
(***************************************************************************)
EXTENDS Integers, Sequences, FiniteSets, TLC

VARIABLES
  \* classifier: the reading being classified and each implementation's band
  aqi, levelTs, levelJs, levelProto,
  \* formatter: the arguments and each surface's rendering
  num, alt, decimals, fmtTs, fmtJs, fmtProto, meterText, protoText,
  \* Next.js dashboard: the SWR cache behind the hooks and the components
  nodeEnv, selectedLocation, mounted, cache, FETCH, reqs, retry, isRefreshing,
  displayed,
  \* prototype: its globals, the requests it has started and what it displays
  appPhase, forceTimer, currentLocation, isLoading, refreshBtn, fetches, card,
  errorMessage, historicalChart, activePeriod,
  \* the SystemStatus component of the dashboard and its own requests
  showSystemStatus, status, statusRefreshing, statusReqs, statusTimers,
  \* the browser: navigator.onLine
  onLine,
  \* HealthRecommendations: the profile of the user and the band adjusted to it
  userProfile, userRiskLevel,
  \* useMultipleForecasts: the list passed in, the cache entry of its key, the
  \* list its request in flight was started for, and the error-retry timer
  locations, batch, batchFetch, batchRetry,
  \* notifications: the permission the browser holds, the flag each program
  \* caches of it, the alerts the panel holds, and the notifications the
  \* last step created
  permission, notificationsEnabled, notificationPermission, alertsData, created

classVars == <<aqi, levelTs, levelJs, levelProto>>
fmtVars == <<num, alt, decimals, fmtTs, fmtJs, fmtProto, meterText, protoText>>
hookVars == <<nodeEnv, selectedLocation, mounted, cache, FETCH, reqs, retry,
              isRefreshing, displayed>>
protoVars == <<appPhase, forceTimer, currentLocation, isLoading, refreshBtn, fetches,
               card, errorMessage, historicalChart, activePeriod>>
statusVars == <<showSystemStatus, status, statusRefreshing, statusReqs, statusTimers>>
browserVars == <<onLine>>
riskVars == <<userProfile, userRiskLevel>>
batchVars == <<locations, batch, batchFetch, batchRetry>>
notifyVars == <<permission, notificationsEnabled, notificationPermission, alertsData,
                created>>
vars == <<classVars, fmtVars, hookVars, protoVars, statusVars, browserVars, riskVars,
          batchVars, notifyVars>>

-----------------------------------------------------------------------------
(* JavaScript values *)

Num(t) == [k |-> "num", v |-> t]
NaN == [k |-> "nan", v |-> 0]
Null == [k |-> "null", v |-> 0]
Undefined == [k |-> "undefined", v |-> 0]
\* a whole number n as a value in tenths
Whole(n) == Num(n * 10)
\* "not computed yet" marker of an output variable
None == [k |-> "none", v |-> 0]

IsNum(x) == x.k = "num"
\* JS truthiness of a number-or-absent value: 0, NaN, null, undefined are falsy
Truthy(x) == IsNum(x) /\ x.v # 0
\* a || b
OrElse(a, b) == IF Truthy(a) THEN a ELSE b

\* x >= n and x <= n for a whole bound n: every comparison with NaN is false
Geq(x, n) == IsNum(x) /\ x.v >= n * 10
Leq(x, n) == IsNum(x) /\ x.v <= n * 10

-----------------------------------------------------------------------------
(* The band tables, in Object.entries (insertion) order *)

Band(key, lo, hi, color, level, description) ==
  [key |-> key, min |-> lo, max |-> hi, color |-> color, level |-> level,
   description |-> description]

BandTable ==
  << Band("good", 0, 50, "#00E400", "Good", "Air quality is satisfactory"),
     Band("moderate", 51, 100, "#FFFF00", "Moderate", "Air quality is acceptable"),
     Band("unhealthySensitive", 101, 150, "#FF7E00", "Unhealthy for Sensitive Groups",
          "Sensitive groups may experience health effects"),
     Band("unhealthy", 151, 200, "#FF0000", "Unhealthy",
          "Everyone may experience health effects"),
     Band("veryUnhealthy", 201, 300, "#8F3F97", "Very Unhealthy",
          "Health warnings of emergency conditions"),
     Band("hazardous", 301, 500, "#7E0023", "Hazardous",
          "Health alert: everyone may experience serious health effects") >>

\* a table that leaves 51 uncovered
AQI_LEVELS_gap == [BandTable EXCEPT ![2].min = 52]
\* frontend/lib/air-quality-constants.ts
AQI_LEVELS == BandTable
\* nextjs_utils_constants.js
js_AQI_LEVELS == BandTable
\* frontend2/script.js
proto_AQI_LEVELS == BandTable

\* the first band of `table`, in order, that contains x; 0 when none does
RECURSIVE FirstMatch(_, _, _)
FirstMatch(table, x, i) ==
  IF i > Len(table) THEN 0
  ELSE IF Geq(x, table[i].min) /\ Leq(x, table[i].max) THEN i
  ELSE FirstMatch(table, x, i + 1)

\* what a component reads of a band
Shown(b) == [level |-> b.level, color |-> b.color, description |-> b.description]

\* a classifier that falls back to the last band instead of the first
getAQILevel_lastFallback(x) ==
  LET i == FirstMatch(AQI_LEVELS, x, 1)
  IN  IF i = 0 THEN AQI_LEVELS[Len(AQI_LEVELS)] ELSE AQI_LEVELS[i]

\* air-quality-constants.ts getAQILevel: first match, else AQI_LEVELS.good
getAQILevel(x) ==
  LET i == FirstMatch(AQI_LEVELS, x, 1)
  IN  IF i = 0 THEN AQI_LEVELS[1] ELSE AQI_LEVELS[i]

\* nextjs_utils_constants.js getAQILevel: first match, else AQI_LEVELS.good
js_getAQILevel(x) ==
  LET i == FirstMatch(js_AQI_LEVELS, x, 1)
  IN  IF i = 0 THEN js_AQI_LEVELS[1] ELSE js_AQI_LEVELS[i]

\* script.js getAQILevel: first match (with its key), else AQI_LEVELS.hazardous
proto_getAQILevel(x) ==
  LET i == FirstMatch(proto_AQI_LEVELS, x, 1)
  IN  IF i = 0 THEN proto_AQI_LEVELS[6] ELSE proto_AQI_LEVELS[i]

-----------------------------------------------------------------------------
(* Number formatting *)

\* Math.round of a value in tenths: nearest whole, halves towards +infinity
MathRound(x) ==
  IF IsNum(x) THEN Num(((x.v + 5) \div 10) * 10) ELSE NaN

\* Number.prototype.toFixed(d) of a number in tenths: the digits printed, as
\* the printed value in tenths and the count of decimals; d = 0 rounds to the
\* nearest whole, halves away from zero
Abs(t) == IF t < 0 THEN -t ELSE t
Sign(t) == IF t < 0 THEN -1 ELSE 1
ToFixed(x, d) ==
  IF ~IsNum(x) THEN [k |-> "text", text |-> "NaN", v |-> 0, d |-> 0]
  ELSE IF d = 0
    THEN [k |-> "fixed", text |-> "", v |-> Sign(x.v) * ((Abs(x.v) + 5) \div 10) * 10, d |-> 0]
    ELSE [k |-> "fixed", text |-> "", v |-> x.v, d |-> d]
Placeholder == [k |-> "text", text |-> "--", v |-> 0, d |-> 0]
NoText == [k |-> "none", text |-> "", v |-> 0, d |-> 0]

\* parseFloat of null, undefined or NaN is NaN; of a number, the number
ParseFloat(x) == IF IsNum(x) THEN x ELSE NaN

\* air-quality-constants.ts formatNumber
formatNumber(x, d) ==
  IF x.k = "null" \/ x.k = "undefined" THEN Placeholder
  ELSE ToFixed(ParseFloat(x), d)

\* nextjs_utils_constants.js formatNumber
js_formatNumber(x, d) ==
  IF x.k = "null" \/ x.k = "undefined" THEN Placeholder
  ELSE ToFixed(ParseFloat(x), d)

\* script.js formatNumber: parseFloat(num).toFixed(decimals), no null check
proto_formatNumber(x, d) == ToFixed(ParseFloat(x), d)

\* aqi-card.tsx: value = currentData[key_predicted] || currentData[key] || 0,
\* rendered by PollutantMeter as formatNumber(value, 1)
PollutantMeter(predicted, plain) ==
  formatNumber(OrElse(OrElse(predicted, plain), Whole(0)), 1)

\* script.js updateCurrentAQI: (forecast.no2_predicted || 0).toFixed(1)
proto_pollutantText(predicted) == ToFixed(OrElse(predicted, Whole(0)), 1)

-----------------------------------------------------------------------------
(* Bounds of the inputs *)

\* readings run from -BelowZero to MaxAqi, in tenths, and NaN
BelowZero == 10
MaxAqi == 510
\* numbers given to the formatters run from -MaxNum to MaxNum tenths
MaxNum == 30
MaxDecimals == 2

AqiInputs == {Num(t) : t \in (-BelowZero * 10)..(MaxAqi * 10)} \cup {NaN}
NumInputs == {Num(t) : t \in (-MaxNum)..MaxNum} \cup {NaN, Null, Undefined}
AltInputs == {Undefined, Whole(0), Num(MaxNum)}

\* at most MaxReq requests are started by the hooks in one run
MaxReq == 4
\* at most MaxFetch requests are started by the prototype in one run
MaxFetch == 4
\* at most MaxStatusReq requests are started by the SystemStatus component
MaxStatusReq == 3

-----------------------------------------------------------------------------
(* The Next.js dashboard: keys, hooks and components *)

\* the location DashboardPage starts with and keeps selected here
Locations == {"new_delhi"}
Kinds == {"forecast", "alerts"}
\* the SWR key of a hook: `/forecast/${location}`, `/alerts/${location}`
Key(kind, loc) == <<kind, loc>>
Keys == {Key(kind, loc) : kind \in Kinds, loc \in Locations}

\* the options each hook passes to useSWR (milliseconds); dedupingInterval is
\* SWR's default of 2000 where the hook does not set it
HookConfig(kind) ==
  CASE kind = "forecast" ->
         [refreshInterval |-> 5 * 60 * 1000, revalidateOnFocus |-> FALSE,
          dedupingInterval |-> 60000]
    [] kind = "historical" ->
         [refreshInterval |-> 15 * 60 * 1000, revalidateOnFocus |-> FALSE,
          dedupingInterval |-> 2000]
    [] kind = "alerts" ->
         [refreshInterval |-> 2 * 60 * 1000, revalidateOnFocus |-> TRUE,
          dedupingInterval |-> 2000]
    [] kind = "health-recommendations" ->
         [refreshInterval |-> 10 * 60 * 1000, revalidateOnFocus |-> FALSE,
          dedupingInterval |-> 2000]
    [] kind = "system-status" ->
         [refreshInterval |-> 30 * 1000, revalidateOnFocus |-> TRUE,
          dedupingInterval |-> 2000]
    [] kind = "validation" ->
         [refreshInterval |-> 30 * 60 * 1000, revalidateOnFocus |-> FALSE,
          dedupingInterval |-> 2000]

\* the components of DashboardPage whose source is at hand, the hook each one
\* calls with selectedLocation, and whether it wires refresh to a button
Components == {"AQICard", "ForecastChart", "AlertsPanel"}
KindOf(c) == IF c = "AlertsPanel" THEN "alerts" ELSE "forecast"
HasRefresh(c) == c \in {"AQICard", "AlertsPanel"}
\* every component of DashboardPage that calls a hook with selectedLocation, in
\* the order the page renders them: AirQualityMap and HealthRecommendations
\* call useForecast too
Subscribers == <<"AQICard", "AlertsPanel", "ForecastChart", "AirQualityMap",
                 "HealthRecommendations">>

\* what the backend may answer (the AQI of the payload), and an AQI of the
\* 50..79 that getMockData stands in with in development mode
Payloads == {Whole(42), Whole(175)}
MockPayload == Whole(65)
NoData == Undefined
NoErr == "none"

NoKey == <<"none", "none">>
NoReq == [key |-> NoKey, phase |-> "unused", by |-> "none"]
\* a settled request: only that its id is spent is remembered
DoneReq == [key |-> NoKey, phase |-> "done", by |-> "none"]
ReqIds == 1..MaxReq

HookIdle ==
  /\ nodeEnv = "production" /\ selectedLocation = "new_delhi"
  /\ mounted = FALSE /\ displayed = {}
  /\ cache = [k \in Keys |-> [data |-> NoData, error |-> NoErr]]
  /\ FETCH = [k \in Keys |-> 0]
  /\ reqs = [r \in ReqIds |-> NoReq]
  /\ retry = [k \in Keys |-> FALSE]
  /\ isRefreshing = [c \in Components |-> FALSE]

-----------------------------------------------------------------------------
(* The prototype: its locations, period buttons, requests and display *)

\* two of the LOCATIONS the selector offers, and two of the period buttons
ProtoLocations == {"Washington_DC", "Los_Angeles"}
Periods == {7, 30}

FetchIds == 1..MaxFetch
\* a request of the prototype: kind is "forecast" (loadLocationData),
\* "status" (loadSystemStatus), "historical" (loadHistoricalData) or
\* "collect" (refreshData); `for` is the caller that awaits it
NoFetch == [kind |-> "none", phase |-> "unused", loc |-> "none", days |-> 0,
            for |-> "none"]
\* a settled request: only that its id is spent is remembered
DoneFetch == [kind |-> "none", phase |-> "done", loc |-> "none", days |-> 0,
              for |-> "none"]

\* the AQI card before any update, and the chart initializeHistoricalChart
\* leaves empty
NoCard == [aqiNumber |-> None, locationName |-> "none"]
NoChart == [req |-> 0, days |-> 0, from |-> "none"]
\* aqi_predicted of the fallbackData of loadLocationData and showFallbackData
FallbackAqi == Whole(65)

ProtoIdle ==
  /\ appPhase = "unloaded" /\ forceTimer = FALSE
  /\ currentLocation = "Washington_DC" /\ isLoading = FALSE /\ refreshBtn = "enabled"
  /\ fetches = [r \in FetchIds |-> NoFetch]
  /\ card = NoCard /\ errorMessage = "none"
  /\ historicalChart = NoChart /\ activePeriod = 30

\* the SystemStatus component: its request slots, the status it shows (which
\* api state, and whether it is the built-in one, the server's or a made-up
\* one) and the state of a dashboard that does not show it
StatusReqIds == 1..MaxStatusReq
InitialStatus == [api |-> "online", from |-> "initial"]
ServerStatuses == {[api |-> "online", from |-> "server"],
                   [api |-> "offline", from |-> "server"]}
StatusIdle ==
  /\ showSystemStatus = FALSE /\ status = InitialStatus
  /\ statusRefreshing = FALSE /\ statusTimers = 0
  /\ statusReqs = [r \in StatusReqIds |-> "unused"]

\* the browser is connected
BrowserIdle == onLine = TRUE

\* a user profile: age is a number or absent, the three flags are booleans;
\* NoProfile is the absent profile
NoProfile == [given |-> FALSE, age |-> Undefined, hasRespiratoryConditions |-> FALSE,
              isPregnant |-> FALSE, isAthlete |-> FALSE]
RiskIdle == userProfile = NoProfile /\ userRiskLevel = None

\* useMultipleForecasts called with an empty list, nothing cached. A cache
\* entry remembers the list its data was fetched for; FETCH is idle ("none"),
\* a request in flight for a list ("flight"), or a success still within
\* dedupingInterval ("fresh"), and `old` tells that a superseded request is
\* still in flight
NoList == <<>>
NoBatch == [fetched |-> FALSE, for |-> NoList, error |-> NoErr]
NoBatchFetch == [state |-> "none", for |-> NoList, old |-> FALSE]
BatchIdle ==
  /\ locations = NoList /\ batch = NoBatch /\ batchFetch = NoBatchFetch
  /\ batchRetry = FALSE

\* no alerts fetched, permission never asked for, nothing created
NoAlerts == [fetched |-> FALSE, alerts |-> <<>>]
NotifyIdle ==
  /\ permission = "default" /\ notificationsEnabled = FALSE
  /\ notificationPermission = FALSE /\ alertsData = NoAlerts /\ created = {}

ClassIdle ==
  /\ aqi = Whole(0) /\ levelTs = None /\ levelJs = None /\ levelProto = None
FmtIdle ==
  /\ num = Undefined /\ alt = Undefined /\ decimals = 1
  /\ fmtTs = NoText /\ fmtJs = NoText /\ fmtProto = NoText
  /\ meterText = NoText /\ protoText = NoText

-----------------------------------------------------------------------------
(* Classifying one reading with each implementation *)

ClassifyInit ==
  /\ aqi \in AqiInputs
  /\ levelTs = None /\ levelJs = None /\ levelProto = None
  /\ FmtIdle /\ HookIdle /\ ProtoIdle /\ StatusIdle /\ BrowserIdle /\ RiskIdle /\ BatchIdle /\ NotifyIdle

ClassifyTs ==
  /\ levelTs = None
  /\ levelTs' = getAQILevel(aqi)
  /\ UNCHANGED <<aqi, levelJs, levelProto, fmtVars, hookVars, protoVars, statusVars, browserVars, riskVars, batchVars, notifyVars>>

ClassifyJs ==
  /\ levelJs = None
  /\ levelJs' = js_getAQILevel(aqi)
  /\ UNCHANGED <<aqi, levelTs, levelProto, fmtVars, hookVars, protoVars, statusVars, browserVars, riskVars, batchVars, notifyVars>>

ClassifyProto ==
  /\ levelProto = None
  /\ levelProto' = proto_getAQILevel(aqi)
  /\ UNCHANGED <<aqi, levelTs, levelJs, fmtVars, hookVars, protoVars, statusVars, browserVars, riskVars, batchVars, notifyVars>>

ClassifyNext == ClassifyTs \/ ClassifyJs \/ ClassifyProto

SpecClassify == ClassifyInit /\ [][ClassifyNext]_vars

-----------------------------------------------------------------------------
(* Claims about the classifier (under SpecClassify) *)

Ranges(table) == [i \in 1..Len(table) |-> <<table[i].min, table[i].max>>]
Tables == {AQI_LEVELS, js_AQI_LEVELS, proto_AQI_LEVELS}
\* the bands of `table` that contain x
Containing(table, x) ==
  {i \in 1..Len(table) : Geq(x, table[i].min) /\ Leq(x, table[i].max)}
IsWholeIn(x, lo, hi) == IsNum(x) /\ x.v % 10 = 0 /\ lo * 10 <= x.v /\ x.v <= hi * 10
SetMin(S) == CHOOSE m \in S : \A n \in S : m <= n

\* C1: each of the three AQI_LEVELS tables lists, in iteration order, the
\* ranges 0-50, 51-100, 101-150, 151-200, 201-300, 301-500, and every whole
\* reading in 0..500 lies in exactly one band of each table.
C1_Partition ==
  \A table \in Tables :
    /\ Ranges(table) = << <<0, 50>>, <<51, 100>>, <<101, 150>>, <<151, 200>>,
                          <<201, 300>>, <<301, 500>> >>
    /\ IsWholeIn(aqi, 0, 500) => Cardinality(Containing(table, aqi)) = 1

\* the reading 51, the first of the second band, has been classified
C1_Witness == aqi = Whole(51) /\ levelTs # None /\ levelTs.level = "Moderate"

\* C2: getAQILevel (TypeScript and migration versions) returns the first band
\* in table order that contains the reading, and the band "Good" for a reading
\* no band contains (negative, above 500, between two bands, NaN); the result
\* is always a band of the table.
C2_FirstBandOrGood ==
  /\ levelTs # None =>
       /\ \E i \in 1..Len(AQI_LEVELS) : levelTs = AQI_LEVELS[i]
       /\ IF Containing(AQI_LEVELS, aqi) = {}
            THEN levelTs.level = "Good" /\ levelTs = AQI_LEVELS[1]
            ELSE levelTs = AQI_LEVELS[SetMin(Containing(AQI_LEVELS, aqi))]
  /\ levelJs # None =>
       /\ \E i \in 1..Len(js_AQI_LEVELS) : levelJs = js_AQI_LEVELS[i]
       /\ IF Containing(js_AQI_LEVELS, aqi) = {}
            THEN levelJs.level = "Good" /\ levelJs = js_AQI_LEVELS[1]
            ELSE levelJs = js_AQI_LEVELS[SetMin(Containing(js_AQI_LEVELS, aqi))]

\* an out-of-range reading (600 is out of the inputs' reach at MaxAqi; 505 is
\* not) and NaN have both been classified
C2_Witness ==
  /\ aqi \in {Whole(505), NaN, Whole(-10)}
  /\ levelTs # None /\ levelJs # None /\ levelTs.level = "Good"

\* C3: for every reading, the prototype's getAQILevel and the Next.js
\* getAQILevel return a band with the same level, color and description.
C3_Uniform ==
  (levelTs # None /\ levelProto # None) => Shown(levelProto) = Shown(levelTs)

\* an in-range reading has been classified by both, with the same band
C3_Witness ==
  /\ aqi = Whole(175) /\ levelTs # None /\ levelProto # None
  /\ levelTs.level = "Unhealthy" /\ levelProto.level = "Unhealthy"

-----------------------------------------------------------------------------
(* Formatting one value on each display surface *)

FormatInit ==
  /\ num \in NumInputs /\ alt \in AltInputs /\ decimals \in 0..MaxDecimals
  /\ fmtTs = NoText /\ fmtJs = NoText /\ fmtProto = NoText
  /\ meterText = NoText /\ protoText = NoText
  /\ ClassIdle /\ HookIdle /\ ProtoIdle /\ StatusIdle /\ BrowserIdle /\ RiskIdle /\ BatchIdle /\ NotifyIdle

FormatTs ==
  /\ fmtTs = NoText
  /\ fmtTs' = formatNumber(num, decimals)
  /\ UNCHANGED <<num, alt, decimals, fmtJs, fmtProto, meterText, protoText, classVars, hookVars, protoVars, statusVars, browserVars, riskVars, batchVars, notifyVars>>

FormatJs ==
  /\ fmtJs = NoText
  /\ fmtJs' = js_formatNumber(num, decimals)
  /\ UNCHANGED <<num, alt, decimals, fmtTs, fmtProto, meterText, protoText, classVars, hookVars, protoVars, statusVars, browserVars, riskVars, batchVars, notifyVars>>

FormatProto ==
  /\ fmtProto = NoText
  /\ fmtProto' = proto_formatNumber(num, decimals)
  /\ UNCHANGED <<num, alt, decimals, fmtTs, fmtJs, meterText, protoText, classVars, hookVars, protoVars, statusVars, browserVars, riskVars, batchVars, notifyVars>>

\* AQICard renders a pollutant whose fields in the fetched data are num and alt
RenderMeter ==
  /\ meterText = NoText
  /\ meterText' = PollutantMeter(num, alt)
  /\ UNCHANGED <<num, alt, decimals, fmtTs, fmtJs, fmtProto, protoText, classVars, hookVars, protoVars, statusVars, browserVars, riskVars, batchVars, notifyVars>>

\* updateCurrentAQI renders a pollutant whose field in the forecast is num
RenderProto ==
  /\ protoText = NoText
  /\ protoText' = proto_pollutantText(num)
  /\ UNCHANGED <<num, alt, decimals, fmtTs, fmtJs, fmtProto, meterText, classVars, hookVars, protoVars, statusVars, browserVars, riskVars, batchVars, notifyVars>>

FormatNext == FormatTs \/ FormatJs \/ FormatProto \/ RenderMeter \/ RenderProto

SpecFormat == FormatInit /\ [][FormatNext]_vars

-----------------------------------------------------------------------------
(* Claims about the formatter (under SpecFormat) *)

Absent(x) == x.k = "null" \/ x.k = "undefined"

\* C4: every formatNumber implementation returns "--" for null and undefined
\* and a fixed-decimal rendering otherwise, and every display surface renders
\* a pollutant value that is absent from the fetched data as "--".
C4_PlaceholderEverywhere ==
  /\ \A out \in {fmtTs, fmtJs, fmtProto} :
       out # NoText =>
         IF Absent(num) THEN out = Placeholder
         ELSE out = ToFixed(ParseFloat(num), decimals)
  /\ (meterText # NoText /\ Absent(num) /\ Absent(alt)) => meterText = Placeholder
  /\ (protoText # NoText /\ Absent(num)) => protoText = Placeholder

\* null has been formatted by the TypeScript formatNumber as "--"
C4_Witness == num = Null /\ fmtTs = Placeholder /\ fmtProto # NoText

-----------------------------------------------------------------------------
(* The SWR cache behind useForecast and useAlerts *)

\* a hook whose isLoading is !data
HookResult_loadingIgnoresError(cch, k) ==
  [data |-> cch[k].data,
   isLoading |-> cch[k].data = NoData,
   isError |-> cch[k].error # NoErr]

\* a hook whose isLoading is !data || error
HookResult_loadingOnError(cch, k) ==
  [data |-> cch[k].data,
   isLoading |-> cch[k].data = NoData \/ cch[k].error # NoErr,
   isError |-> cch[k].error # NoErr]

\* the hooks of the migrated lib/api.js derive the same flags
js_HookResult(cch, k) ==
  [data |-> cch[k].data,
   isLoading |-> ~(cch[k].error # NoErr) /\ ~(cch[k].data # NoData),
   isError |-> cch[k].error # NoErr]

\* what a hook returns for key k: data, isLoading = !error && !data, isError
HookResult(cch, k) ==
  [data |-> cch[k].data,
   isLoading |-> cch[k].error = NoErr /\ cch[k].data = NoData,
   isError |-> cch[k].error # NoErr]

KeyOf(c, loc) == Key(KindOf(c), loc)

\* AQICard: skeleton while loading, else the error card with Retry, else the
\* "no data" card, else the reading; the header refresh button is part of the
\* reading view and is disabled while isRefreshing
AQICardView(h, refreshing) ==
  IF h.isLoading THEN [body |-> "skeleton", errorShown |-> FALSE, button |-> FALSE]
  ELSE IF h.isError THEN [body |-> "error", errorShown |-> TRUE, button |-> TRUE]
  ELSE IF h.data = NoData THEN [body |-> "empty", errorShown |-> FALSE, button |-> FALSE]
  ELSE [body |-> "data", errorShown |-> FALSE, button |-> ~refreshing]

\* ForecastChart: skeleton while loading, else "Unable to load forecast data"
\* on error or without forecast_data, else the chart; it has no button
ForecastChartView(h, refreshing) ==
  IF h.isLoading THEN [body |-> "skeleton", errorShown |-> FALSE, button |-> FALSE]
  ELSE IF h.isError \/ h.data = NoData
    THEN [body |-> "error", errorShown |-> TRUE, button |-> FALSE]
  ELSE [body |-> "data", errorShown |-> FALSE, button |-> FALSE]

\* AlertsPanel: skeleton while loading, else the panel, whose header holds the
\* refresh button and whose content is "Unable to load alerts" on error and
\* the list of alerts otherwise
AlertsPanelView(h, refreshing) ==
  IF h.isLoading THEN [body |-> "skeleton", errorShown |-> FALSE, button |-> FALSE]
  ELSE IF h.isError THEN [body |-> "error", errorShown |-> TRUE, button |-> ~refreshing]
  ELSE [body |-> "data", errorShown |-> FALSE, button |-> ~refreshing]

View(c, cch, loc, refreshing) ==
  LET h == HookResult(cch, KeyOf(c, loc))
  IN  IF c = "AQICard" THEN AQICardView(h, refreshing[c])
      ELSE IF c = "ForecastChart" THEN ForecastChartView(h, refreshing[c])
      ELSE AlertsPanelView(h, refreshing[c])

\* AQICard's reading of a forecast that carries aqi_predicted and no aqi:
\* Math.round(currentData.aqi_predicted || currentData.aqi || 0), and the band
\* it renders for it
AQICardAqi(forecast) == MathRound(OrElse(OrElse(forecast, Undefined), Whole(0)))
AQICardBand(forecast) == Shown(getAQILevel(AQICardAqi(forecast)))

\* the components that, mounted, have shown fetched data for the location
Displayed(disp, m, cch, loc, refreshing) ==
  IF m THEN disp \cup {c \in Components : View(c, cch, loc, refreshing).body = "data"}
  ELSE disp

Used(rq) == {r \in ReqIds : rq[r].phase # "unused"}
InFlight(rq, k) == {r \in ReqIds : rq[r].key = k /\ rq[r].phase \in {"fetch", "json"}}

\* a revalidate that joins the request marked in FETCH[k] only once two
\* requests have been started
Revalidate_dedupeLate(st, k, dedupe, by) ==
  IF dedupe /\ st.FETCH[k] # 0 /\ Cardinality(Used(st.reqs)) > 2 THEN st
  ELSE IF Used(st.reqs) = ReqIds THEN [st EXCEPT !.full = TRUE]
  ELSE LET id == Cardinality(Used(st.reqs)) + 1
       IN  [st EXCEPT !.FETCH[k] = id,
                      !.reqs[id] = [key |-> k, phase |-> "fetch", by |-> by]]

\* SWR's revalidate for key k on the pair st = [FETCH, reqs, full]: with
\* dedupe, a request marked in FETCH[k] is joined; otherwise the fetcher is
\* called and the new request becomes FETCH[k]. `full` records that a request
\* was needed beyond MaxReq.
Revalidate(st, k, dedupe, by) ==
  IF dedupe /\ st.FETCH[k] # 0 THEN st
  ELSE IF Used(st.reqs) = ReqIds THEN [st EXCEPT !.full = TRUE]
  ELSE LET id == Cardinality(Used(st.reqs)) + 1
       IN  [st EXCEPT !.FETCH[k] = id,
                      !.reqs[id] = [key |-> k, phase |-> "fetch", by |-> by]]

Now == [FETCH |-> FETCH, reqs |-> reqs, full |-> FALSE]

\* the hooks of Subscribers[i], Subscribers[i+1], ... subscribe at location
\* loc, one after the other: each revalidates its key with dedupe
RECURSIVE SubscribeAll(_, _, _)
SubscribeAll(st, i, loc) ==
  IF i > Len(Subscribers) THEN st
  ELSE SubscribeAll(Revalidate(st, KeyOf(Subscribers[i], loc), TRUE, "none"), i + 1, loc)

\* revalidate, with dedupe, the keys of the kinds in ks at location loc
RECURSIVE RevalidateAll(_, _, _)
RevalidateAll(st, ks, loc) ==
  IF ks = {} THEN st
  ELSE LET kind == CHOOSE x \in ks : TRUE
       IN  RevalidateAll(Revalidate(st, Key(kind, loc), TRUE, "none"),
                         ks \ {kind}, loc)

\* the production build, before DashboardPage mounts
HookInit ==
  /\ nodeEnv = "production"
  /\ selectedLocation = "new_delhi"
  /\ mounted = FALSE /\ displayed = {}
  /\ cache = [k \in Keys |-> [data |-> NoData, error |-> NoErr]]
  /\ FETCH = [k \in Keys |-> 0]
  /\ reqs = [r \in ReqIds |-> NoReq]
  /\ retry = [k \in Keys |-> FALSE]
  /\ isRefreshing = [c \in Components |-> FALSE]
  /\ ClassIdle /\ FmtIdle /\ ProtoIdle /\ StatusIdle /\ BrowserIdle /\ RiskIdle /\ BatchIdle /\ NotifyIdle

\* DashboardPage mounts: the hook of every component subscribes to its key
\* and revalidates with dedupe, one after the other
Mount ==
  /\ ~mounted
  /\ LET st == SubscribeAll(Now, 1, selectedLocation)
     IN  /\ ~st.full
         /\ FETCH' = st.FETCH /\ reqs' = st.reqs
  /\ mounted' = TRUE
  /\ displayed' = Displayed(displayed, mounted', cache, selectedLocation, isRefreshing)
  /\ UNCHANGED <<nodeEnv, selectedLocation, cache, retry, isRefreshing>>
  /\ UNCHANGED <<classVars, fmtVars, protoVars, statusVars, browserVars, riskVars, batchVars, notifyVars>>

\* handleRefresh of AQICard and AlertsPanel, from a button the view shows
\* enabled: setIsRefreshing(true), then refresh() = mutate(), which deletes
\* FETCH[key] and revalidates without dedupe
HandleRefresh(c) ==
  /\ mounted /\ HasRefresh(c)
  /\ View(c, cache, selectedLocation, isRefreshing).button
  /\ LET k == KeyOf(c, selectedLocation)
         st == Revalidate([Now EXCEPT !.FETCH[k] = 0], k, FALSE, c)
     IN  /\ ~st.full
         /\ FETCH' = st.FETCH /\ reqs' = st.reqs
  /\ isRefreshing' = [isRefreshing EXCEPT ![c] = TRUE]
  /\ displayed' = Displayed(displayed, mounted, cache, selectedLocation, isRefreshing')
  /\ UNCHANGED <<nodeEnv, selectedLocation, mounted, cache, retry>>
  /\ UNCHANGED <<classVars, fmtVars, protoVars, statusVars, browserVars, riskVars, batchVars, notifyVars>>

\* handleRefresh after `await refresh()`: one second after every request the
\* component's refresh started has settled, setIsRefreshing(false)
EndRefreshing(c) ==
  /\ isRefreshing[c]
  /\ \A r \in ReqIds : reqs[r].by # c
  /\ isRefreshing' = [isRefreshing EXCEPT ![c] = FALSE]
  /\ displayed' = Displayed(displayed, mounted, cache, selectedLocation, isRefreshing')
  /\ UNCHANGED <<nodeEnv, selectedLocation, mounted, cache, FETCH, reqs, retry>>
  /\ UNCHANGED <<classVars, fmtVars, protoVars, statusVars, browserVars, riskVars, batchVars, notifyVars>>

\* what the polling timer of a hook on key k does when it fires: revalidate
\* with dedupe, unless the cache holds an error for the key
Polled(k) ==
  IF cache[k].error = NoErr THEN Revalidate(Now, k, TRUE, "none") ELSE Now

\* the refreshInterval timer of c's hook fires: SWR revalidates with dedupe
\* unless the key holds an error
IntervalTick(c) ==
  /\ mounted
  /\ LET st == Polled(KeyOf(c, selectedLocation))
     IN  /\ ~st.full
         /\ FETCH' = st.FETCH /\ reqs' = st.reqs
  /\ UNCHANGED <<nodeEnv, selectedLocation, mounted, cache, retry, isRefreshing,
                 displayed>>
  /\ UNCHANGED <<classVars, fmtVars, protoVars, statusVars, browserVars, riskVars, batchVars, notifyVars>>

\* the window regains focus: the hooks with revalidateOnFocus revalidate with
\* dedupe
Focus ==
  /\ mounted
  /\ LET st == RevalidateAll(Now, {kind \in Kinds : HookConfig(kind).revalidateOnFocus},
                             selectedLocation)
     IN  /\ ~st.full
         /\ FETCH' = st.FETCH /\ reqs' = st.reqs
  /\ UNCHANGED <<nodeEnv, selectedLocation, mounted, cache, retry, isRefreshing,
                 displayed>>
  /\ UNCHANGED <<classVars, fmtVars, protoVars, statusVars, browserVars, riskVars, batchVars, notifyVars>>

\* SWR's cleanup timer, dedupingInterval after a request succeeded, forgets it
DedupeExpire(k) ==
  /\ FETCH[k] # 0
  /\ reqs[FETCH[k]].phase = "done"
  /\ FETCH' = [FETCH EXCEPT ![k] = 0]
  /\ UNCHANGED <<nodeEnv, selectedLocation, mounted, cache, reqs, retry, isRefreshing,
                 displayed>>
  /\ UNCHANGED <<classVars, fmtVars, protoVars, statusVars, browserVars, riskVars, batchVars, notifyVars>>

\* SWR's onErrorRetry timer fires for k: the hook on k, if any, revalidates
\* with dedupe
ErrorRetry(k) ==
  /\ retry[k]
  /\ retry' = [retry EXCEPT ![k] = FALSE]
  /\ LET st == IF mounted /\ k[2] = selectedLocation
                 THEN Revalidate(Now, k, TRUE, "none") ELSE Now
     IN  /\ ~st.full
         /\ FETCH' = st.FETCH /\ reqs' = st.reqs
  /\ UNCHANGED <<nodeEnv, selectedLocation, mounted, cache, isRefreshing, displayed>>
  /\ UNCHANGED <<classVars, fmtVars, protoVars, statusVars, browserVars, riskVars, batchVars, notifyVars>>

\* an apiRequest whose development branch throws on a response that is not ok
apiRequest_devThrowsStatus(env, outcome, payload, mock) ==
  IF outcome = "json" THEN [ok |-> TRUE, data |-> payload, error |-> NoErr]
  ELSE IF outcome = "status" THEN [ok |-> FALSE, data |-> NoData, error |-> "HTTP"]
  ELSE IF env = "development" THEN [ok |-> TRUE, data |-> mock, error |-> NoErr]
  ELSE [ok |-> FALSE, data |-> NoData,
        error |-> CASE outcome = "abort" -> "Request timeout"
                    [] outcome = "network" -> "network"
                    [] OTHER -> "parse"]

\* an apiRequest that rethrows whatever it caught, the abort included
apiRequest_rethrowsAll(env, outcome, payload, mock) ==
  IF outcome = "json" THEN [ok |-> TRUE, data |-> payload, error |-> NoErr]
  ELSE IF env = "development" THEN [ok |-> TRUE, data |-> mock, error |-> NoErr]
  ELSE [ok |-> FALSE, data |-> NoData,
        error |-> CASE outcome = "status" -> "HTTP"
                    [] outcome = "abort" -> "AbortError"
                    [] outcome = "network" -> "network"
                    [] OTHER -> "parse"]

\* apiRequest of the migrated lib/api.js: the production path only
js_apiRequest(outcome, payload) ==
  IF outcome = "json" THEN [ok |-> TRUE, data |-> payload, error |-> NoErr]
  ELSE [ok |-> FALSE, data |-> NoData,
        error |-> CASE outcome = "status" -> "HTTP"
                    [] outcome = "abort" -> "Request timeout"
                    [] outcome = "network" -> "network"
                    [] OTHER -> "parse"]

\* apiRequest: what the promise settles with, given how the exchange with the
\* backend ended. `outcome` is "json" (an ok response whose body parsed to
\* `payload`), "status" (a response that is not ok), "network" (fetch
\* rejected), "abort" (the timer aborted the request) or "parse"
\* (response.json() rejected). Production rethrows, naming a timeout
\* "Request timeout"; development falls back to getMockData's `mock`.
apiRequest(env, outcome, payload, mock) ==
  IF outcome = "json" THEN [ok |-> TRUE, data |-> payload, error |-> NoErr]
  ELSE IF env = "development" THEN [ok |-> TRUE, data |-> mock, error |-> NoErr]
  ELSE [ok |-> FALSE, data |-> NoData,
        error |-> CASE outcome = "status" -> "HTTP"
                    [] outcome = "abort" -> "Request timeout"
                    [] outcome = "network" -> "network"
                    [] OTHER -> "parse"]

\* a settlement whose success leaves a value already cached in place
Settled_keepsFirst(cch, ftch, r, k, res) ==
  IF res.ok
    THEN IF ftch[k] = r /\ cch[k].data = NoData
           THEN [data |-> res.data, error |-> NoErr] ELSE cch[k]
    ELSE [cch[k] EXCEPT !.error = res.error]

\* a settlement whose failure clears the data it found
Settled_dropsData(cch, ftch, r, k, res) ==
  IF res.ok
    THEN IF ftch[k] = r THEN [data |-> res.data, error |-> NoErr] ELSE cch[k]
    ELSE [data |-> NoData, error |-> res.error]

\* the cache entry of key k after request r settled with `res`: a success is
\* stored, clearing the error, if r is still FETCH[k] and dropped otherwise; a
\* failure stores the error and keeps the data
Settled(cch, ftch, r, k, res) ==
  IF res.ok
    THEN IF ftch[k] = r THEN [data |-> res.data, error |-> NoErr] ELSE cch[k]
    ELSE [cch[k] EXCEPT !.error = res.error]

\* request r settles with res: SWR updates the cache; after a failure it
\* forgets the request at once and, if a hook is on the key, schedules a retry
Settle(r, res) ==
  LET k == reqs[r].key
  IN  /\ reqs' = [reqs EXCEPT ![r] = DoneReq]
      /\ cache' = [cache EXCEPT ![k] = Settled(cache, FETCH, r, k, res)]
      /\ FETCH' = IF ~res.ok /\ FETCH[k] = r THEN [FETCH EXCEPT ![k] = 0] ELSE FETCH
      /\ retry' = IF ~res.ok /\ mounted /\ k[2] = selectedLocation
                    THEN [retry EXCEPT ![k] = TRUE] ELSE retry
      /\ displayed' = Displayed(displayed, mounted, cache', selectedLocation, isRefreshing)
      /\ UNCHANGED <<nodeEnv, selectedLocation, mounted, isRefreshing>>
      /\ UNCHANGED <<classVars, fmtVars, protoVars, statusVars, browserVars, riskVars, batchVars, notifyVars>>

\* the response arrives with an ok status: the timer is cleared and the body
\* is read
ResponseOk(r) ==
  /\ reqs[r].phase = "fetch"
  /\ reqs' = [reqs EXCEPT ![r].phase = "json"]
  /\ UNCHANGED <<nodeEnv, selectedLocation, mounted, cache, FETCH, retry, isRefreshing,
                 displayed>>
  /\ UNCHANGED <<classVars, fmtVars, protoVars, statusVars, browserVars, riskVars, batchVars, notifyVars>>

\* the body parses
JsonOk(r, payload) ==
  /\ reqs[r].phase = "json"
  /\ Settle(r, apiRequest(nodeEnv, "json", payload, MockPayload))

\* the body does not parse
JsonFail(r) ==
  /\ reqs[r].phase = "json"
  /\ Settle(r, apiRequest(nodeEnv, "parse", NoData, MockPayload))

\* the response arrives with a status that is not ok
ResponseNotOk(r) ==
  /\ reqs[r].phase = "fetch"
  /\ Settle(r, apiRequest(nodeEnv, "status", NoData, MockPayload))

\* fetch rejects: the backend cannot be reached
NetworkError(r) ==
  /\ reqs[r].phase = "fetch"
  /\ Settle(r, apiRequest(nodeEnv, "network", NoData, MockPayload))

\* the request timer fires before the response: the request is aborted. The
\* timers all run for the same 10 s, so they fire in the order of the requests
Timeout(r) ==
  /\ reqs[r].phase = "fetch"
  /\ \A q \in ReqIds : q < r => reqs[q].phase # "fetch"
  /\ Settle(r, apiRequest(nodeEnv, "abort", NoData, MockPayload))

HookNext ==
  \/ Mount
  \/ \E c \in Components : HandleRefresh(c)
  \/ \E c \in Components : EndRefreshing(c)
  \/ \E c \in Components : IntervalTick(c)
  \/ Focus
  \/ \E k \in Keys : DedupeExpire(k)
  \/ \E k \in Keys : ErrorRetry(k)
  \/ \E r \in ReqIds : ResponseOk(r)
  \/ \E r \in ReqIds, payload \in Payloads : JsonOk(r, payload)
  \/ \E r \in ReqIds : JsonFail(r)
  \/ \E r \in ReqIds : ResponseNotOk(r)
  \/ \E r \in ReqIds : NetworkError(r)
  \/ \E r \in ReqIds : Timeout(r)

SpecHooks == HookInit /\ [][HookNext]_vars

\* the dashboard of a development build (NODE_ENV = "development"): the same
\* hooks and components over the development branch of apiRequest. No request
\* fails there, so no error-retry timer is ever armed
DevInit ==
  /\ nodeEnv = "development"
  /\ selectedLocation = "new_delhi"
  /\ mounted = FALSE /\ displayed = {}
  /\ cache = [k \in Keys |-> [data |-> NoData, error |-> NoErr]]
  /\ FETCH = [k \in Keys |-> 0]
  /\ reqs = [r \in ReqIds |-> NoReq]
  /\ retry = [k \in Keys |-> FALSE]
  /\ isRefreshing = [c \in Components |-> FALSE]
  /\ ClassIdle /\ FmtIdle /\ ProtoIdle /\ StatusIdle /\ BrowserIdle /\ RiskIdle /\ BatchIdle /\ NotifyIdle

DevNext ==
  \/ Mount
  \/ \E c \in Components : HandleRefresh(c)
  \/ \E c \in Components : EndRefreshing(c)
  \/ \E c \in Components : IntervalTick(c)
  \/ Focus
  \/ \E k \in Keys : DedupeExpire(k)
  \/ \E r \in ReqIds : ResponseOk(r)
  \/ \E r \in ReqIds, payload \in Payloads : JsonOk(r, payload)
  \/ \E r \in ReqIds : JsonFail(r)
  \/ \E r \in ReqIds : ResponseNotOk(r)
  \/ \E r \in ReqIds : NetworkError(r)
  \/ \E r \in ReqIds : Timeout(r)

SpecDev == DevInit /\ [][DevNext]_vars

\* the user leaves the dashboard for another page: its components unmount and
\* their state is lost, the error-retry timers of their hooks find the hook
\* unmounted; SWR's cache and the requests in flight stay
Unmount ==
  /\ mounted
  /\ mounted' = FALSE
  /\ isRefreshing' = [c \in Components |-> FALSE]
  /\ retry' = [k \in Keys |-> FALSE]
  /\ reqs' = [r \in ReqIds |-> [reqs[r] EXCEPT !.by = "none"]]
  /\ displayed' = {}
  /\ UNCHANGED <<nodeEnv, selectedLocation, cache, FETCH>>
  /\ UNCHANGED <<classVars, fmtVars, protoVars, statusVars, browserVars, riskVars, batchVars, notifyVars>>

\* the dashboard, left and re-entered: Mount is the Link back to /dashboard
RemountNext == HookNext \/ Unmount

SpecRemount == HookInit /\ [][RemountNext]_vars

-----------------------------------------------------------------------------
(* The prototype's loaders (frontend2/script.js) *)

\* isLoading and the requests, threaded through the calls of one handler;
\* `full` records that a request was needed beyond MaxFetch
PNow == [isLoading |-> isLoading, fetches |-> fetches, full |-> FALSE]

UsedFetches(fs) == {r \in FetchIds : fs[r].phase # "unused"}

\* fetch(...) of a loader: a new request
NewFetch(st, kind, loc, days, who) ==
  IF UsedFetches(st.fetches) = FetchIds THEN [st EXCEPT !.full = TRUE]
  ELSE LET id == Cardinality(UsedFetches(st.fetches)) + 1
       IN  [st EXCEPT !.fetches[id] = [kind |-> kind, phase |-> "fetch", loc |-> loc,
                                       days |-> days, for |-> who]]

\* loadLocationData up to its fetch: nothing while isLoading, else isLoading
\* is set and the forecast of `loc` (currentLocation) is requested
loadLocationData(st, loc, who) ==
  IF st.isLoading THEN st
  ELSE NewFetch([st EXCEPT !.isLoading = TRUE], "forecast", loc, 0, who)

\* loadSystemStatus and loadHistoricalData up to their fetch: no guard
loadSystemStatus(st, who) == NewFetch(st, "status", "none", 0, who)
loadHistoricalData(st, loc, days, who) == NewFetch(st, "historical", loc, days, who)

\* updateCurrentAQI: the AQI number and the location name of the card
updateCurrentAQI(aqi_predicted, location) ==
  [aqiNumber |-> MathRound(OrElse(aqi_predicted, Whole(50))), locationName |-> location]

\* what the caller awaiting the settled request f goes on to do: loadInitialData
\* starts the background loads once both essential loads are over; refreshData
\* calls loadLocationData after the collect, then loadSystemStatus
Resume(st, f) ==
  IF f.for = "initial"
    THEN IF \E q \in FetchIds : st.fetches[q].for = "initial" THEN st
         ELSE loadHistoricalData(st, currentLocation, 30, "none")
  ELSE IF f.for = "refresh" /\ f.kind = "collect"
    THEN IF st.isLoading THEN loadSystemStatus(st, "refresh")
         ELSE loadLocationData(st, currentLocation, "refresh")
  ELSE IF f.for = "refresh" /\ f.kind = "forecast"
    THEN loadSystemStatus(st, "refresh")
  ELSE st

\* request r is over, with isLoading, the card, the toast and the chart as
\* given: its caller resumes
Finish(r, loading, newCard, newError, newChart) ==
  LET f == fetches[r]
      over == [isLoading |-> loading, fetches |-> [fetches EXCEPT ![r] = DoneFetch],
               full |-> FALSE]
      st == Resume(over, f)
  IN  /\ ~st.full
      /\ fetches' = st.fetches /\ isLoading' = st.isLoading
      /\ appPhase' = IF f.for = "initial" /\ ~\E q \in FetchIds : over.fetches[q].for = "initial"
                       THEN "ready" ELSE appPhase
      /\ refreshBtn' = IF f.for = "refresh" /\ f.kind = "status" THEN "enabled" ELSE refreshBtn
      /\ card' = newCard /\ errorMessage' = newError /\ historicalChart' = newChart
      /\ UNCHANGED <<forceTimer, currentLocation, activePeriod>>
      /\ UNCHANGED <<classVars, fmtVars, hookVars, statusVars, browserVars, riskVars, batchVars, notifyVars>>

ProtoInit ==
  /\ ProtoIdle
  /\ ClassIdle /\ FmtIdle /\ HookIdle /\ StatusIdle /\ BrowserIdle /\ RiskIdle /\ BatchIdle /\ NotifyIdle

\* initializeApp: the 3 s timer is armed, loadInitialData arms the 5 s timer
\* and calls loadLocationData and loadSystemStatus, startAutoRefresh
initializeApp ==
  /\ appPhase = "unloaded"
  /\ LET st == loadSystemStatus(loadLocationData(PNow, currentLocation, "initial"), "initial")
     IN  /\ ~st.full
         /\ fetches' = st.fetches /\ isLoading' = st.isLoading
  /\ appPhase' = "essential" /\ forceTimer' = TRUE
  /\ UNCHANGED <<currentLocation, refreshBtn, card, errorMessage, historicalChart,
                 activePeriod>>
  /\ UNCHANGED <<classVars, fmtVars, hookVars, statusVars, browserVars, riskVars, batchVars, notifyVars>>

\* showFallbackData: the sample reading on the card, and the toast
showFallbackData ==
  /\ card' = updateCurrentAQI(FallbackAqi, "Washington, DC")
  /\ errorMessage' = "Using sample data"

\* the 3 s timer of initializeApp fires
ForceFallback ==
  /\ forceTimer
  /\ forceTimer' = FALSE
  /\ showFallbackData
  /\ UNCHANGED <<appPhase, currentLocation, isLoading, refreshBtn, fetches,
                 historicalChart, activePeriod>>
  /\ UNCHANGED <<classVars, fmtVars, hookVars, statusVars, browserVars, riskVars, batchVars, notifyVars>>

\* the 5 s timer of loadInitialData fires before both essential loads are
\* over; the 3 s timer, armed just before it, has fired by then
LoadingTimeout ==
  /\ appPhase = "essential" /\ ~forceTimer
  /\ appPhase' = "late"
  /\ showFallbackData
  /\ UNCHANGED <<forceTimer, currentLocation, isLoading, refreshBtn, fetches,
                 historicalChart, activePeriod>>
  /\ UNCHANGED <<classVars, fmtVars, hookVars, statusVars, browserVars, riskVars, batchVars, notifyVars>>

\* the location selector changes
ChangeLocation(loc) ==
  /\ appPhase # "unloaded" /\ loc # currentLocation
  /\ currentLocation' = loc
  /\ LET st == loadLocationData(PNow, loc, "none")
     IN  /\ ~st.full
         /\ fetches' = st.fetches /\ isLoading' = st.isLoading
  /\ UNCHANGED <<appPhase, forceTimer, refreshBtn, card, errorMessage, historicalChart,
                 activePeriod>>
  /\ UNCHANGED <<classVars, fmtVars, hookVars, statusVars, browserVars, riskVars, batchVars, notifyVars>>

\* the browser comes back online
Online ==
  /\ appPhase # "unloaded" /\ ~onLine
  /\ onLine' = TRUE
  /\ LET st == loadLocationData(PNow, currentLocation, "none")
     IN  /\ ~st.full
         /\ fetches' = st.fetches /\ isLoading' = st.isLoading
  /\ UNCHANGED <<appPhase, forceTimer, currentLocation, refreshBtn, card, errorMessage,
                 historicalChart, activePeriod>>
  /\ UNCHANGED <<classVars, fmtVars, hookVars, statusVars, riskVars, batchVars, notifyVars>>

\* the browser goes offline: only the connection indicator changes
Offline ==
  /\ appPhase # "unloaded" /\ onLine
  /\ onLine' = FALSE
  /\ UNCHANGED <<classVars, fmtVars, hookVars, protoVars, statusVars, riskVars, batchVars, notifyVars>>

\* CONFIG.REFRESH_INTERVAL, in milliseconds
REFRESH_INTERVAL == 5 * 60 * 1000

\* a callback that does not look at navigator.onLine
autoRefreshTick_ignoresOffline(st, online) ==
  IF ~st.isLoading
    THEN loadSystemStatus(loadLocationData(st, currentLocation, "none"), "none")
    ELSE st

\* the callback of startAutoRefresh's interval: both loaders, unless a load
\* is in progress or the browser is offline
autoRefreshTick(st, online) ==
  IF ~st.isLoading /\ online
    THEN loadSystemStatus(loadLocationData(st, currentLocation, "none"), "none")
    ELSE st

\* the interval of startAutoRefresh fires
AutoRefresh ==
  /\ appPhase # "unloaded"
  /\ LET st == autoRefreshTick(PNow, onLine)
     IN  /\ ~st.full
         /\ fetches' = st.fetches /\ isLoading' = st.isLoading
  /\ UNCHANGED <<appPhase, forceTimer, currentLocation, refreshBtn, card, errorMessage,
                 historicalChart, activePeriod>>
  /\ UNCHANGED <<classVars, fmtVars, hookVars, statusVars, browserVars, riskVars, batchVars, notifyVars>>

\* refreshData up to its first await: nothing while isLoading, else the
\* collect request for currentLocation
refreshDataStart(st) ==
  IF st.isLoading THEN st
  ELSE NewFetch(st, "collect", currentLocation, 0, "refresh")

\* a click on the refresh button: refreshData up to its collect request
refreshData ==
  /\ appPhase # "unloaded" /\ refreshBtn = "enabled"
  /\ LET st == refreshDataStart(PNow)
     IN  /\ ~st.full
         /\ fetches' = st.fetches
  /\ refreshBtn' = IF isLoading THEN refreshBtn ELSE "disabled"
  /\ UNCHANGED <<appPhase, forceTimer, currentLocation, isLoading, card, errorMessage,
                 historicalChart, activePeriod>>
  /\ UNCHANGED <<classVars, fmtVars, hookVars, statusVars, browserVars, riskVars, batchVars, notifyVars>>

\* a click on the status refresh button
ClickStatusRefresh ==
  /\ appPhase # "unloaded"
  /\ LET st == loadSystemStatus(PNow, "none")
     IN  /\ ~st.full
         /\ fetches' = st.fetches
  /\ UNCHANGED <<appPhase, forceTimer, currentLocation, isLoading, refreshBtn, card,
                 errorMessage, historicalChart, activePeriod>>
  /\ UNCHANGED <<classVars, fmtVars, hookVars, statusVars, browserVars, riskVars, batchVars, notifyVars>>

\* a click on a period button: loadHistoricalData(period), and the button is
\* made the active one
ClickPeriod(days) ==
  /\ appPhase # "unloaded"
  /\ LET st == loadHistoricalData(PNow, currentLocation, days, "none")
     IN  /\ ~st.full
         /\ fetches' = st.fetches
  /\ activePeriod' = days
  /\ UNCHANGED <<appPhase, forceTimer, currentLocation, isLoading, refreshBtn, card,
                 errorMessage, historicalChart>>
  /\ UNCHANGED <<classVars, fmtVars, hookVars, statusVars, browserVars, riskVars, batchVars, notifyVars>>

\* a response arrives with an ok status for a forecast or historical request:
\* its timer is cleared and the body is read
FetchResponseOk(r) ==
  /\ fetches[r].kind \in {"forecast", "historical"} /\ fetches[r].phase = "fetch"
  /\ fetches' = [fetches EXCEPT ![r].phase = "json"]
  /\ UNCHANGED <<appPhase, forceTimer, currentLocation, isLoading, refreshBtn, card,
                 errorMessage, historicalChart, activePeriod>>
  /\ UNCHANGED <<classVars, fmtVars, hookVars, statusVars, browserVars, riskVars, batchVars, notifyVars>>

\* loadLocationData after its body parsed: the card shows forecasts[0] for the
\* location of the response
ForecastJsonOk(r, payload) ==
  /\ fetches[r].kind = "forecast" /\ fetches[r].phase = "json"
  /\ Finish(r, FALSE, updateCurrentAQI(payload, fetches[r].loc), errorMessage,
            historicalChart)

\* a catch that leaves isLoading as it found it
ForecastError_keepsLoading(r) ==
  /\ fetches[r].kind = "forecast" /\ fetches[r].phase \in {"fetch", "json"}
  /\ Finish(r, TRUE, card, "Failed to load location data", historicalChart)

\* loadLocationData's catch for an error that is no AbortError (a status that
\* is not ok, fetch rejecting, a body that does not parse): the toast
ForecastError(r) ==
  /\ fetches[r].kind = "forecast" /\ fetches[r].phase \in {"fetch", "json"}
  /\ Finish(r, FALSE, card, "Failed to load location data", historicalChart)

\* the timers all run for REQUEST_TIMEOUT, so they fire in the order of the
\* requests; the collect request has none
TimerDue(r) ==
  \A q \in FetchIds :
    (q < r /\ fetches[q].phase = "fetch") => fetches[q].kind = "collect"

\* loadLocationData's catch for the AbortError of its timer: fallbackData with
\* currentLocation goes on the card
ForecastTimeout(r) ==
  /\ fetches[r].kind = "forecast" /\ fetches[r].phase = "fetch" /\ TimerDue(r)
  /\ Finish(r, FALSE, updateCurrentAQI(FallbackAqi, currentLocation), errorMessage,
            historicalChart)

\* loadHistoricalData after its body parsed: a body with data goes on the chart
HistoricalJsonOk(r, hasData) ==
  /\ fetches[r].kind = "historical" /\ fetches[r].phase = "json"
  /\ Finish(r, isLoading, card, errorMessage,
            IF hasData THEN [req |-> r, days |-> fetches[r].days, from |-> "server"]
            ELSE historicalChart)

\* loadHistoricalData's catch for an error that is no AbortError: logged only
HistoricalError(r) ==
  /\ fetches[r].kind = "historical" /\ fetches[r].phase \in {"fetch", "json"}
  /\ Finish(r, isLoading, card, errorMessage, historicalChart)

\* loadHistoricalData's catch for the AbortError of its timer: generated data
\* goes on the chart
HistoricalTimeout(r) ==
  /\ fetches[r].kind = "historical" /\ fetches[r].phase = "fetch" /\ TimerDue(r)
  /\ Finish(r, isLoading, card, errorMessage,
            [req |-> r, days |-> fetches[r].days, from |-> "fallback"])

\* loadSystemStatus is over, however it ended (its panel is not modelled)
StatusSettle(r) ==
  /\ fetches[r].kind = "status" /\ fetches[r].phase = "fetch"
  /\ Finish(r, isLoading, card, errorMessage, historicalChart)

\* refreshData's collect request got a response, of whatever status
CollectDone(r) ==
  /\ fetches[r].kind = "collect" /\ fetches[r].phase = "fetch"
  /\ Finish(r, isLoading, card, errorMessage, historicalChart)

\* refreshData's collect request rejected: the toast, and the button is
\* restored
CollectFail(r) ==
  /\ fetches[r].kind = "collect" /\ fetches[r].phase = "fetch"
  /\ fetches' = [fetches EXCEPT ![r] = DoneFetch]
  /\ errorMessage' = "Failed to refresh data"
  /\ refreshBtn' = "enabled"
  /\ UNCHANGED <<appPhase, forceTimer, currentLocation, isLoading, card, historicalChart,
                 activePeriod>>
  /\ UNCHANGED <<classVars, fmtVars, hookVars, statusVars, browserVars, riskVars, batchVars, notifyVars>>

ProtoNext ==
  \/ initializeApp
  \/ ForceFallback
  \/ LoadingTimeout
  \/ \E loc \in ProtoLocations : ChangeLocation(loc)
  \/ Online
  \/ Offline
  \/ AutoRefresh
  \/ refreshData
  \/ ClickStatusRefresh
  \/ \E days \in Periods : ClickPeriod(days)
  \/ \E r \in FetchIds : FetchResponseOk(r)
  \/ \E r \in FetchIds, payload \in Payloads : ForecastJsonOk(r, payload)
  \/ \E r \in FetchIds : ForecastError(r)
  \/ \E r \in FetchIds : ForecastTimeout(r)
  \/ \E r \in FetchIds, hasData \in BOOLEAN : HistoricalJsonOk(r, hasData)
  \/ \E r \in FetchIds : HistoricalError(r)
  \/ \E r \in FetchIds : HistoricalTimeout(r)
  \/ \E r \in FetchIds : StatusSettle(r)
  \/ \E r \in FetchIds : CollectDone(r)
  \/ \E r \in FetchIds : CollectFail(r)

SpecProto == ProtoInit /\ [][ProtoNext]_vars

\* the timers armed with REQUEST_TIMEOUT do fire: a request that stays in its
\* fetch phase is aborted; nothing else is promised, the backend may stay
\* silent for ever
ProtoTimers ==
  /\ WF_vars(\E r \in FetchIds : ForecastTimeout(r))
  /\ WF_vars(\E r \in FetchIds : HistoricalTimeout(r))
  /\ WF_vars(\E r \in FetchIds : StatusSettle(r))

SpecProtoTimed == SpecProto /\ ProtoTimers

-----------------------------------------------------------------------------
(* The SystemStatus component (frontend/components/system-status.tsx) *)

\* the component polls with its own timer
StatusPollInterval == 30000

StatusNow == [reqs |-> statusReqs, isRefreshing |-> statusRefreshing, full |-> FALSE]

\* fetchSystemStatus up to its await: setIsRefreshing(true) and a request of
\* its own, whatever else is in flight
fetchSystemStatus(st) ==
  LET free == {r \in StatusReqIds : st.reqs[r] = "unused"}
  IN  IF free = {} THEN [st EXCEPT !.full = TRUE]
      ELSE LET r == CHOOSE x \in free : \A y \in free : x <= y
           IN  [st EXCEPT !.reqs[r] = "fetch", !.isRefreshing = TRUE]

\* what the window regaining focus does to the component: it registers no
\* focus listener and uses no hook
StatusOnFocus(st) == st

\* the "System Status" button of the page shows the component: its effect
\* calls fetchSystemStatus and arms the polling timer
ShowStatus ==
  /\ ~showSystemStatus
  /\ LET st == fetchSystemStatus(StatusNow)
     IN  /\ ~st.full
         /\ statusReqs' = st.reqs /\ statusRefreshing' = st.isRefreshing
  /\ showSystemStatus' = TRUE
  /\ UNCHANGED <<status, statusTimers>>
  /\ UNCHANGED <<classVars, fmtVars, hookVars, protoVars, browserVars, riskVars, batchVars, notifyVars>>

\* the button hides it: the component unmounts, its state is lost and what its
\* requests and timers do later has no effect
HideStatus ==
  /\ showSystemStatus
  /\ showSystemStatus' = FALSE
  /\ status' = InitialStatus /\ statusRefreshing' = FALSE /\ statusTimers' = 0
  /\ statusReqs' = [r \in StatusReqIds |->
                      IF statusReqs[r] = "unused" THEN "unused" ELSE "done"]
  /\ UNCHANGED <<classVars, fmtVars, hookVars, protoVars, browserVars, riskVars, batchVars, notifyVars>>

StatusCall(st) ==
  /\ ~st.full
  /\ statusReqs' = st.reqs /\ statusRefreshing' = st.isRefreshing
  /\ UNCHANGED <<showSystemStatus, status, statusTimers>>
  /\ UNCHANGED <<classVars, fmtVars, hookVars, protoVars, browserVars, riskVars, batchVars, notifyVars>>

\* setInterval(fetchSystemStatus, 30000)
StatusTick == showSystemStatus /\ StatusCall(fetchSystemStatus(StatusNow))

\* the refresh button of the component, disabled while isRefreshing
StatusClick ==
  showSystemStatus /\ ~statusRefreshing /\ StatusCall(fetchSystemStatus(StatusNow))

\* the window regains focus
StatusFocus == showSystemStatus /\ StatusCall(StatusOnFocus(StatusNow))

\* the response arrives with a 2xx status: the body is read next
StatusResponseOk(r) ==
  /\ showSystemStatus /\ statusReqs[r] = "fetch"
  /\ statusReqs' = [statusReqs EXCEPT ![r] = "json"]
  /\ UNCHANGED <<showSystemStatus, status, statusRefreshing, statusTimers>>
  /\ UNCHANGED <<classVars, fmtVars, hookVars, protoVars, browserVars, riskVars, batchVars, notifyVars>>

\* the end of fetchSystemStatus: setStatus, and finally the 1 s timer that
\* clears isRefreshing
StatusDone(r, phase, shown) ==
  /\ showSystemStatus /\ statusReqs[r] = phase
  /\ statusReqs' = [statusReqs EXCEPT ![r] = "done"]
  /\ status' = shown
  /\ statusTimers' = statusTimers + 1
  /\ UNCHANGED <<showSystemStatus, statusRefreshing>>
  /\ UNCHANGED <<classVars, fmtVars, hookVars, protoVars, browserVars, riskVars, batchVars, notifyVars>>

StatusJsonOk(r, data) == StatusDone(r, "json", data)
\* a response that is not ok: a made-up degraded status
StatusNotOk(r) == StatusDone(r, "fetch", [api |-> "degraded", from |-> "mock"])
\* fetch or json() rejects: the status shown, with made-up figures
StatusFetchError(r) == StatusDone(r, "fetch", [status EXCEPT !.from = "mock"])
StatusJsonError(r) == StatusDone(r, "json", [status EXCEPT !.from = "mock"])

\* setTimeout(() => setIsRefreshing(false), 1000)
StatusClearRefreshing ==
  /\ showSystemStatus /\ statusTimers > 0
  /\ statusTimers' = statusTimers - 1
  /\ statusRefreshing' = FALSE
  /\ UNCHANGED <<showSystemStatus, status, statusReqs>>
  /\ UNCHANGED <<classVars, fmtVars, hookVars, protoVars, browserVars, riskVars, batchVars, notifyVars>>

StatusInit == StatusIdle /\ BrowserIdle /\ RiskIdle /\ BatchIdle /\ NotifyIdle /\ ClassIdle /\ FmtIdle /\ HookIdle /\ ProtoIdle

StatusNext ==
  \/ ShowStatus
  \/ HideStatus
  \/ StatusTick
  \/ StatusClick
  \/ StatusFocus
  \/ \E r \in StatusReqIds : StatusResponseOk(r)
  \/ \E r \in StatusReqIds, data \in ServerStatuses : StatusJsonOk(r, data)
  \/ \E r \in StatusReqIds : StatusNotOk(r)
  \/ \E r \in StatusReqIds : StatusFetchError(r)
  \/ \E r \in StatusReqIds : StatusJsonError(r)
  \/ StatusClearRefreshing

SpecStatus == StatusInit /\ [][StatusNext]_vars

-----------------------------------------------------------------------------
(* Claims about the hooks and their components (under SpecHooks) *)

\* C5: in every reachable state at most one fetch is in flight per resource
\* key, whatever the subscriptions, interval ticks, focus events and refresh()
\* calls that led there.
C5_OneInFlight == \A k \in Keys : Cardinality(InFlight(reqs, k)) <= 1

\* request r fails in this step
Fails(r) == JsonFail(r) \/ ResponseNotOk(r) \/ NetworkError(r) \/ Timeout(r)

\* C6: a failing fetch for a key sets the key's error and leaves its data as
\* it was; isError then stays true for the key's observers until a successful
\* fetch of the key clears the error and stores its data, and the successful
\* fetch the key currently names does so (the response of a superseded
\* request is dropped, as last-request-wins demands).
C6_ErrorPolicy ==
  [][\A k \in Keys :
       /\ \A r \in ReqIds :
            (reqs[r].key = k /\ Fails(r)) =>
              /\ HookResult(cache', k).isError
              /\ cache'[k].data = cache[k].data
       /\ (HookResult(cache, k).isError /\ ~HookResult(cache', k).isError) =>
            \E r \in ReqIds, payload \in Payloads :
              /\ reqs[r].key = k /\ JsonOk(r, payload)
              /\ cache'[k].data = payload
       /\ \A r \in ReqIds, payload \in Payloads :
            (reqs[r].key = k /\ FETCH[k] = r /\ JsonOk(r, payload)) =>
              cache'[k] = [data |-> payload, error |-> NoErr]
    ]_vars

\* a fetch has failed for a key that held fetched data: the key holds both
C6_Witness ==
  \E k \in Keys : cache[k].error = "Request timeout" /\ cache[k].data \in Payloads

\* C7: a component that has displayed fetched data for its key and whose
\* later revalidation failed still displays the data, together with an error
\* indication and a retry action.
C7_KeepsLastGood ==
  \A c \in Components :
    (mounted /\ c \in displayed /\ HookResult(cache, KeyOf(c, selectedLocation)).isError) =>
      LET v == View(c, cache, selectedLocation, isRefreshing)
      IN  v.body = "data" /\ v.errorShown /\ v.button

\* AQICard has displayed a reading and a later revalidation of its key failed
C7_Witness ==
  /\ mounted /\ "AQICard" \in displayed
  /\ cache[KeyOf("AQICard", selectedLocation)].error # NoErr
  /\ cache[KeyOf("AQICard", selectedLocation)].data \in Payloads

\* C9: refresh() for a key while a fetch for the key is outstanding starts no
\* further network request.
C9_RefreshJoins ==
  [][\A c \in Components :
       (HandleRefresh(c) /\ InFlight(reqs, KeyOf(c, selectedLocation)) # {}) =>
         Used(reqs') = Used(reqs)
    ]_vars

\* a refresh() was called while a fetch for the key was outstanding: two
\* requests for the key are in flight, the later one started by the component
C9_Witness ==
  \E r1, r2 \in ReqIds :
    /\ r1 < r2 /\ reqs[r1].key = reqs[r2].key
    /\ reqs[r1].phase \in {"fetch", "json"} /\ reqs[r2].phase \in {"fetch", "json"}
    /\ reqs[r2].by = "AQICard"

-----------------------------------------------------------------------------
(* Claims about the prototype's loaders (under SpecProto) *)

\* the toast reports a failure
FailureReported(msg) == msg \in {"Failed to load location data", "Failed to refresh data"}

\* C8: a fetch that exceeds the request timeout is reported as a failure and
\* leaves what is displayed for its resource as it was: the timeout never
\* overwrites a value.
C8_TimeoutKeepsData ==
  [][\A r \in FetchIds :
       (ForecastTimeout(r) \/ HistoricalTimeout(r)) =>
         /\ card' = card /\ historicalChart' = historicalChart
         /\ FailureReported(errorMessage')
    ]_vars

\* a forecast request is in flight while the card shows a reading the backend
\* sent: its timer can fire
C8_Witness ==
  /\ card.aqiNumber \in Payloads
  /\ \E r \in FetchIds : fetches[r].kind = "forecast" /\ fetches[r].phase = "fetch"

\* C10: last-request-wins: the response of a request that was superseded (the
\* chart already shows the result of a request started after it) is dropped.
C10_LastRequestWins ==
  [][\A r \in FetchIds :
       ((HistoricalJsonOk(r, TRUE) \/ HistoricalTimeout(r)) /\ historicalChart.req > r) =>
         historicalChart' = historicalChart
    ]_vars

\* two historical requests overlapped and the later-started one resolved
\* first: the chart shows its result while the earlier one is still read
C10_Witness ==
  \E r \in FetchIds :
    /\ fetches[r].kind = "historical" /\ fetches[r].phase = "json"
    /\ historicalChart.req > r /\ historicalChart.from = "server"

\* C19: keys are independent: a load in flight for one location does not
\* suppress the load of another. After the user has switched location while a
\* load was in flight, once the forecast requests have all settled the card
\* shows a reading of the location now selected.
C19_KeysIndependent ==
  [][\A r \in FetchIds, payload \in Payloads :
       (/\ ForecastJsonOk(r, payload)
        /\ \A q \in FetchIds :
             fetches'[q].kind = "forecast" => fetches'[q].phase \notin {"fetch", "json"})
         => card'.locationName = currentLocation'
    ]_vars

\* the user has switched location while the load of the previous location was
\* in flight, and that load is the only one
C19_Witness ==
  \E r \in FetchIds :
    /\ fetches[r].kind = "forecast" /\ fetches[r].phase \in {"fetch", "json"}
    /\ fetches[r].loc # currentLocation
    /\ \A q \in FetchIds : fetches[q].kind = "forecast" => q = r

-----------------------------------------------------------------------------
(* Claims about subscription and revalidation (under SpecHooks) *)

\* the subscribers of DashboardPage whose hook is on key k
SubscribersOn(k) ==
  {i \in 1..Len(Subscribers) : KeyOf(Subscribers[i], selectedLocation) = k}

\* C11: when the consumers of DashboardPage subscribe together on mount,
\* exactly one fetch is issued for every key that has a subscriber, however
\* many of them subscribe to it.
C11_OneFetchPerKey ==
  [][Mount =>
       \A k \in Keys :
         Cardinality({r \in ReqIds : reqs'[r].key = k}) =
           (IF SubscribersOn(k) = {} THEN 0 ELSE 1)
    ]_vars

\* the page has mounted: four consumers subscribed to the forecast key and
\* the one request for it is in flight
C11_Witness ==
  /\ mounted /\ Cardinality(SubscribersOn(Key("forecast", selectedLocation))) = 4
  /\ Cardinality(Used(reqs)) = 2
  /\ \A r \in Used(reqs) : reqs[r].phase = "fetch"

\* request r settles in this step, with a result or with a failure
Settles(r) == Fails(r) \/ \E payload \in Payloads : JsonOk(r, payload)

\* C13: the first subscription to a key never seen before starts a fetch at
\* once, and the hook reports isLoading from then until the first result, a
\* success or a failure, arrives; after that isLoading is false.
C13_LoadingUntilFirstResult ==
  [][\A k \in Keys :
       /\ (Mount /\ SubscribersOn(k) # {}) =>
            InFlight(reqs', k) # {} /\ HookResult(cache', k).isLoading
       /\ (mounted' /\ SubscribersOn(k) # {} /\ HookResult(cache', k).isLoading) =>
            InFlight(reqs', k) # {}
       /\ \A r \in ReqIds :
            (reqs[r].key = k /\ Settles(r)) => ~HookResult(cache', k).isLoading
       /\ (HookResult(cache, k).isLoading /\ ~HookResult(cache', k).isLoading) =>
            \E r \in ReqIds : reqs[r].key = k /\ Settles(r)
    ]_vars

\* the first result for the forecast key was a failure: the hook has stopped
\* loading and holds no data
C13_Witness ==
  LET k == Key("forecast", selectedLocation)
  IN  /\ mounted /\ cache[k] = [data |-> NoData, error |-> "HTTP"]
      /\ ~HookResult(cache, k).isLoading /\ InFlight(reqs, k) = {}

\* the success that last fetched key k is still within dedupingInterval: the
\* refreshInterval of the key has not elapsed since
Fresh(k) == FETCH[k] # 0 /\ reqs[FETCH[k]].phase = "done"

\* C14: when the revalidation interval of a key elapses, a fetch for the key
\* is started (or one is already in flight), and the value fetched before
\* stays with the consumers: the data is not cleared and isLoading does not
\* become true, neither at the tick nor while the new fetch is in flight.
C14_StaleWhileRevalidate ==
  /\ [](\A c \in Components :
          LET k == KeyOf(c, selectedLocation)
          IN  (mounted /\ ~Fresh(k) /\ ~Polled(k).full) =>
                InFlight(Polled(k).reqs, k) # {})
  /\ [][\A c \in Components :
          LET k == KeyOf(c, selectedLocation)
          IN  /\ IntervalTick(c) => cache' = cache
              /\ (cache[k].data # NoData /\ InFlight(reqs, k) # {}) =>
                   /\ ~HookResult(cache, k).isLoading
                   /\ (cache'[k].data # cache[k].data =>
                         \E r \in ReqIds, payload \in Payloads :
                           JsonOk(r, payload) /\ cache'[k].data = payload)
       ]_vars

\* the forecast key holds a value and the error of a later fetch, no request
\* for it is in flight: the interval can elapse
C14_Witness ==
  LET k == Key("forecast", selectedLocation)
  IN  /\ mounted /\ cache[k].data \in Payloads /\ cache[k].error = "network"
      /\ InFlight(reqs, k) = {} /\ retry[k] /\ Cardinality(Used(reqs)) < MaxReq

\* C16: after a fetch has failed or timed out, the next fetch is started by
\* the polling timer, by the window regaining focus or by a call of refresh()
\* only: there is no automatic retry of a failed fetch. Every step that starts
\* a request is a mount, a refresh(), a polling tick or a focus step.
C16_NoErrorRetry ==
  [][Used(reqs') # Used(reqs) =>
       \/ Mount
       \/ \E c \in Components : HandleRefresh(c)
       \/ \E c \in Components : IntervalTick(c)
       \/ Focus
    ]_vars

\* a fetch of the forecast has just failed with nothing else in flight for the
\* key
C16_Witness ==
  LET k == Key("forecast", selectedLocation)
  IN  /\ mounted /\ cache[k].error = "Request timeout" /\ retry[k]
      /\ InFlight(reqs, k) = {} /\ Cardinality(Used(reqs)) < MaxReq

\* how a fetch can fail, and the error each way is stated to give: the
\* distinguished timeout error, the HTTP error, or the error that fetch or
\* json() threw
FailureOutcomes == {"status", "abort", "network", "parse"}
StatedError(outcome) ==
  CASE outcome = "abort" -> "Request timeout"
    [] outcome = "status" -> "HTTP"
    [] outcome = "network" -> "network"
    [] outcome = "parse" -> "parse"

\* C18: in production a request whose timer fires fails with 'Request
\* timeout', a response that is not ok fails with the HTTP error, and every
\* other failure keeps the error it was thrown with; a key gets the timeout
\* error only by a step in which a request's timer fired. Both versions of
\* apiRequest agree on this.
C18_TimeoutDistinguished ==
  /\ [](\A outcome \in FailureOutcomes :
          /\ js_apiRequest(outcome, NoData).error = StatedError(outcome)
          /\ apiRequest("production", outcome, NoData, MockPayload).error =
               StatedError(outcome))
  /\ [][\A r \in ReqIds :
          LET k == reqs[r].key
          IN  /\ Timeout(r) => cache'[k].error = "Request timeout"
              /\ ResponseNotOk(r) => cache'[k].error = "HTTP"
              /\ NetworkError(r) => cache'[k].error = "network"
              /\ JsonFail(r) => cache'[k].error = "parse"
              /\ (Fails(r) /\ cache'[k].error = "Request timeout") => Timeout(r)
       ]_vars

\* one key holds the timeout error while the other holds an HTTP error
C18_Witness ==
  /\ cache[Key("forecast", selectedLocation)].error = "Request timeout"
  /\ cache[Key("alerts", selectedLocation)].error = "HTTP"

\* the band the prototype's card takes for a forecast: updateCurrentAQI
\* classifies the number it puts on the card
proto_cardBand(aqi_predicted) ==
  Shown(proto_getAQILevel(updateCurrentAQI(aqi_predicted, "none").aqiNumber))

\* C20: after a successful fetch whose AQI is v (a whole number in 0..500)
\* the card renders the band of v with its color and description: 42 gives
\* Good, "Air quality is satisfactory". When the backend's answer has changed
\* and a refresh completes successfully, the band rendered is that of the new
\* value (175 gives Unhealthy), not that of the old one; a refresh in flight
\* is superseded by another refresh only.
C20_RendersBandOfValue ==
  /\ \A v \in 0..500 :
       /\ AQICardBand(Whole(v)) = Shown(getAQILevel(Whole(v)))
       /\ proto_cardBand(Whole(v)) = Shown(proto_getAQILevel(Whole(v)))
  /\ AQICardBand(Whole(42)).level = "Good"
  /\ AQICardBand(Whole(42)).description = "Air quality is satisfactory"
  /\ AQICardBand(Whole(175)).level = "Unhealthy"
  /\ proto_cardBand(Whole(42)).level = "Good"
  /\ proto_cardBand(Whole(175)).level = "Unhealthy"
  /\ [][\A r \in ReqIds :
          LET k == reqs[r].key
          IN  /\ \A payload \in Payloads :
                   (JsonOk(r, payload) /\ FETCH[k] = r /\ mounted
                      /\ k = KeyOf("AQICard", selectedLocation)) =>
                     /\ View("AQICard", cache', selectedLocation, isRefreshing').body = "data"
                     /\ AQICardBand(cache'[k].data) = Shown(getAQILevel(payload))
              /\ (reqs[r].by # "none" /\ FETCH[k] = r /\ FETCH'[k] # r /\ reqs'[r] = reqs[r]) =>
                   \E c \in Components : HandleRefresh(c)
       ]_vars

\* the card showed a reading, the user refreshed, and the refresh has brought
\* 175: the card shows it while its button is still disabled
C20_Witness ==
  LET k == KeyOf("AQICard", selectedLocation)
  IN  /\ mounted /\ isRefreshing["AQICard"] /\ InFlight(reqs, k) = {}
      /\ View("AQICard", cache, selectedLocation, isRefreshing).body = "data"
      /\ AQICardBand(cache[k].data).level = "Unhealthy"

\* C27: the flags a hook derives are consistent in every state: isLoading
\* holds only with neither data nor error, so isLoading and isError never
\* hold together, and isLoading is false once a value has been fetched, also
\* while a revalidation of the key is in flight; both versions of the hooks
\* agree.
C27_FlagsConsistent ==
  \A k \in Keys :
    LET h == HookResult(cache, k)
    IN  /\ h.isLoading => (cache[k].data = NoData /\ cache[k].error = NoErr)
        /\ ~(h.isLoading /\ h.isError)
        /\ cache[k].data # NoData => ~h.isLoading
        /\ js_HookResult(cache, k) = h

\* the forecast key holds a value while a revalidation of it is in flight,
\* and the alerts key holds an error and no value
C27_Witness ==
  /\ cache[Key("forecast", selectedLocation)].data \in Payloads
  /\ InFlight(reqs, Key("forecast", selectedLocation)) # {}
  /\ cache[Key("alerts", selectedLocation)].data = NoData
  /\ cache[Key("alerts", selectedLocation)].error # NoErr

-----------------------------------------------------------------------------
(* Claims about re-subscription (under SpecRemount) *)

\* C12: a subscription to a key that holds a cached value gets the value at
\* once with isLoading false and starts no fetch for the key, however long
\* ago the value was cached.
C12_CacheHit ==
  [][Mount =>
       \A k \in Keys :
         (SubscribersOn(k) # {} /\ cache[k].data # NoData) =>
           /\ HookResult(cache', k).data = cache[k].data
           /\ ~HookResult(cache', k).isLoading
           /\ \A r \in ReqIds : reqs'[r].key = k => reqs[r].key = k
    ]_vars

\* the forecast key holds a fetched value, the request that fetched it is
\* forgotten, and a later subscription or tick has a request for it in flight
C12_Witness ==
  LET k == Key("forecast", selectedLocation)
  IN  /\ mounted /\ cache[k] = [data |-> Whole(42), error |-> NoErr]
      /\ reqs[1].phase = "done" /\ FETCH[k] = 3
      /\ reqs[3] = [key |-> k, phase |-> "fetch", by |-> "none"]

-----------------------------------------------------------------------------
(* Claims about the revalidation policy of every resource (under SpecStatus) *)

ResourceKinds == {"forecast", "historical", "alerts", "health-recommendations",
                  "system-status", "validation"}

\* the policy stated for each kind of resource: the polling interval in
\* milliseconds and whether the window regaining focus starts a fetch
StatedPolicy(kind) ==
  CASE kind = "forecast" -> [interval |-> 300000, onFocus |-> FALSE]
    [] kind = "historical" -> [interval |-> 900000, onFocus |-> FALSE]
    [] kind = "alerts" -> [interval |-> 120000, onFocus |-> TRUE]
    [] kind = "health-recommendations" -> [interval |-> 600000, onFocus |-> FALSE]
    [] kind = "system-status" -> [interval |-> 30000, onFocus |-> TRUE]
    [] kind = "validation" -> [interval |-> 1800000, onFocus |-> FALSE]

\* C15: every kind of resource is revalidated on the stated interval, and the
\* window regaining focus starts a fetch for alerts and system status only;
\* this holds for every consumer of a resource, the SystemStatus component
\* included: while it is shown, focus starts a request for the system status.
C15_RevalidationPolicy ==
  /\ \A kind \in ResourceKinds :
       /\ HookConfig(kind).refreshInterval = StatedPolicy(kind).interval
       /\ HookConfig(kind).revalidateOnFocus = StatedPolicy(kind).onFocus
  /\ StatusPollInterval = StatedPolicy("system-status").interval
  /\ (showSystemStatus /\ ~fetchSystemStatus(StatusNow).full) =>
       (StatedPolicy("system-status").onFocus <=>
          StatusOnFocus(StatusNow).reqs # statusReqs)

\* the component is shown, its first request has settled and it can start
\* another: the window can regain focus
C15_Witness ==
  /\ showSystemStatus /\ status.from = "server"
  /\ \A r \in StatusReqIds : statusReqs[r] \in {"unused", "done"}
  /\ ~fetchSystemStatus(StatusNow).full

-----------------------------------------------------------------------------
(* Claims about the timeout of the requests (under SpecProtoTimed) *)

\* C17: every request is bounded by the timeout: once started it is settled
\* eventually (with a result, an error or the timeout), even if the backend
\* never answers; this covers every request of the prototype, the collect
\* request of refreshData included.
C17_EveryFetchSettles ==
  \A r \in FetchIds :
    (fetches[r].phase \in {"fetch", "json"}) ~> (fetches[r] = DoneFetch)

\* refreshData has sent its collect request and the backend has not answered
C17_Witness ==
  \E r \in FetchIds : fetches[r].kind = "collect" /\ fetches[r].phase = "fetch"

\* C29: refreshData always restores the refresh button: whenever it has
\* disabled the button the button is enabled again eventually, whether the
\* collect request and the reloads succeed or fail; and a call that returns
\* early because a load is in progress changes nothing.
C29_ButtonRestored ==
  /\ (refreshBtn = "disabled") ~> (refreshBtn = "enabled")
  /\ [](isLoading => refreshDataStart(PNow) = PNow)

\* refreshData has disabled the button and awaits its collect request
C29_Witness ==
  /\ refreshBtn = "disabled"
  /\ \E r \in FetchIds :
       /\ fetches[r].kind = "collect" /\ fetches[r].phase = "fetch"
       /\ fetches[r].for = "refresh"

-----------------------------------------------------------------------------
(* Claims about the prototype's refreshing and loading flag (under SpecProto) *)

\* the requests a step from the present state to st starts
StartedIn(st) ==
  {r \in FetchIds : fetches[r].phase = "unused" /\ st.fetches[r].phase # "unused"}

\* C21: the prototype auto-refreshes every five minutes: a tick of the
\* interval starts one forecast load for the current location and one status
\* load if no load is in progress and the browser is online, and starts
\* nothing (and changes nothing) while a load is in progress or offline.
C21_AutoRefreshTick ==
  /\ REFRESH_INTERVAL = 300000
  /\ [](LET st == autoRefreshTick(PNow, onLine)
        IN  (appPhase # "unloaded" /\ ~st.full) =>
              IF ~isLoading /\ onLine
                THEN /\ st.isLoading
                     /\ {st.fetches[r] : r \in StartedIn(st)} =
                          { [kind |-> "forecast", loc |-> currentLocation, phase |-> "fetch",
                             days |-> 0, for |-> "none"],
                            [kind |-> "status", loc |-> "none", phase |-> "fetch",
                             days |-> 0, for |-> "none"] }
                ELSE st = PNow)

\* the card shows a reading of the backend, no load is in progress and the
\* browser is offline: the interval can fire
C21_Witness ==
  /\ ~onLine /\ ~isLoading /\ card.aqiNumber \in Payloads
  /\ Cardinality(FetchIds \ UsedFetches(fetches)) >= 2

LoadsInFlight ==
  {r \in FetchIds : fetches[r].kind = "forecast" /\ fetches[r].phase \in {"fetch", "json"}}

\* C25: isLoading is true exactly while a request of loadLocationData is in
\* flight, and there is at most one: it is set before the request starts and
\* reset on every way the request ends, so it is never left at true;
\* loadLocationData and refreshData start no request while it is true.
C25_LoadingFlag ==
  /\ isLoading <=> LoadsInFlight # {}
  /\ Cardinality(LoadsInFlight) <= 1
  /\ isLoading =>
       /\ loadLocationData(PNow, currentLocation, "none") = PNow
       /\ refreshDataStart(PNow) = PNow

\* a load has ended with an error after an earlier one had put a reading on
\* the card, and nothing is loading
C25_Witness ==
  /\ ~isLoading /\ errorMessage = "Failed to load location data"
  /\ card.aqiNumber \in Payloads /\ LoadsInFlight = {}

-----------------------------------------------------------------------------
(* Claims about the development build (under SpecDev) *)

\* C23: in development apiRequest never rejects: an ok response whose body
\* parses gives the backend's JSON, every other outcome (not ok, network
\* error, timeout, a body that does not parse) gives getMockData(endpoint);
\* so no key ever holds an error, no hook reports isError and no retry is
\* armed.
C23_DevNeverRejects ==
  /\ \A outcome \in FailureOutcomes :
       apiRequest("development", outcome, NoData, MockPayload) =
         [ok |-> TRUE, data |-> MockPayload, error |-> NoErr]
  /\ \A payload \in Payloads :
       apiRequest("development", "json", payload, MockPayload) =
         [ok |-> TRUE, data |-> payload, error |-> NoErr]
  /\ [](\A k \in Keys :
          /\ cache[k].error = NoErr /\ ~retry[k]
          /\ ~HookResult(cache, k).isError)
  /\ [][\A r \in ReqIds :
          (Fails(r) /\ FETCH[reqs[r].key] = r) => cache'[reqs[r].key].data = MockPayload
       ]_vars

\* the forecast key holds mock data while the alerts key holds the backend's
\* answer: one request failed and one succeeded
C23_Witness ==
  /\ cache[Key("forecast", selectedLocation)].data = MockPayload
  /\ cache[Key("alerts", selectedLocation)].data \in Payloads

-----------------------------------------------------------------------------
(* The risk-adjusted band of HealthRecommendations (unnamed/part_003) *)

\* x * m for a multiplier given in tenths (15 is 1.5), and Math.min(n, x)
Times(x, mTenths) == IF IsNum(x) THEN Num((x.v * mTenths) \div 10) ELSE NaN
MathMin(n, x) == IF IsNum(x) THEN (IF x.v < n * 10 THEN x ELSE Whole(n)) ELSE NaN

\* riskMultiplier in tenths: 1, plus 0.5 for an age below 18 or above 65 (an
\* age of 0 is falsy), 1 for respiratory conditions, 0.7 for pregnancy and 0.3
\* for athletes
riskMultiplier(profile) ==
  IF ~profile.given THEN 10
  ELSE 10
       + (IF Truthy(profile.age) /\ (profile.age.v < 180 \/ profile.age.v > 650)
            THEN 5 ELSE 0)
       + (IF profile.hasRespiratoryConditions THEN 10 ELSE 0)
       + (IF profile.isPregnant THEN 7 ELSE 0)
       + (IF profile.isAthlete THEN 3 ELSE 0)

\* getUserRiskLevel: the band of Math.min(500, aqi * riskMultiplier)
getUserRiskLevel(x, profile) ==
  getAQILevel(MathMin(500, Times(x, riskMultiplier(profile))))

\* the readings and the profiles tried: every whole AQI of the scale, and
\* every combination of the flags with a young, a middle and an old age, no
\* age, and no profile at all
RiskInputs == {Whole(v) : v \in 0..500}
Ages == {Undefined, Whole(10), Whole(30), Whole(70)}
Profiles ==
  {NoProfile} \cup
  [given : {TRUE}, age : Ages, hasRespiratoryConditions : BOOLEAN,
   isPregnant : BOOLEAN, isAthlete : BOOLEAN]

RiskInit ==
  /\ aqi \in RiskInputs /\ userProfile \in Profiles /\ userRiskLevel = None
  /\ levelTs = None /\ levelJs = None /\ levelProto = None
  /\ FmtIdle /\ HookIdle /\ ProtoIdle /\ StatusIdle /\ BrowserIdle /\ BatchIdle /\ NotifyIdle

\* HealthRecommendations renders: the base band and the adjusted band
RenderRisk ==
  /\ userRiskLevel = None
  /\ userRiskLevel' = getUserRiskLevel(aqi, userProfile)
  /\ levelTs' = getAQILevel(aqi)
  /\ UNCHANGED <<aqi, levelJs, levelProto, userProfile>>
  /\ UNCHANGED <<fmtVars, hookVars, protoVars, statusVars, browserVars, batchVars, notifyVars>>

RiskNext == RenderRisk

SpecRisk == RiskInit /\ [][RiskNext]_vars

\* how severe a band is: its place in the table
Severity(b) == CHOOSE i \in 1..Len(BandTable) : BandTable[i].key = b.key

\* C24: getUserRiskLevel is monotone in risk: for every whole AQI in 0..500
\* and every profile, the band of the risk-adjusted value is at least as
\* severe as the base band of the AQI.
C24_RiskMonotone ==
  userRiskLevel # None => Severity(userRiskLevel) >= Severity(levelTs)

\* a reading in the Moderate band was adjusted for a profile that raises the
\* risk
C24_Witness ==
  /\ userRiskLevel # None /\ riskMultiplier(userProfile) > 10
  /\ levelTs.key = "moderate"

-----------------------------------------------------------------------------
(* useMultipleForecasts: one cache key for every list *)

Lists == {NoList, <<"new_delhi">>, <<"washington_dc">>, <<"new_delhi", "washington_dc">>}

\* the key the hook passes to useSWR: the same for every list that is not
\* empty, null for the empty one
BatchKey(l) == IF Len(l) > 0 THEN "/forecasts/batch" ELSE "null"

\* what the hook returns for list l over cache entry b: nothing under the
\* null key, the entry of the key otherwise
BatchResult(l, b) ==
  LET e == IF BatchKey(l) = "null" THEN NoBatch ELSE b
  IN  [forecasts |-> e, isLoading |-> e.error = NoErr /\ ~e.fetched,
       isError |-> e.error # NoErr]

\* a revalidation that does not look at the key
BatchRevalidate_anyKey(f, l, dedupe) ==
  IF dedupe /\ f.state # "none" THEN f
  ELSE [state |-> "flight", for |-> l, old |-> f.old \/ f.state = "flight"]

\* SWR revalidates the hook called with list l: nothing under the null key
\* (and the fetcher itself returns null for an empty list); with dedupe
\* nothing while FETCH holds the key; else getBatchForecast(l) is called and
\* becomes the request of the key
BatchRevalidate(f, l, dedupe) ==
  IF BatchKey(l) = "null" THEN f
  ELSE IF dedupe /\ f.state # "none" THEN f
  ELSE [state |-> "flight", for |-> l, old |-> f.old \/ f.state = "flight"]

\* the polling timer: skipped while the entry holds an error
BatchPolled(f, l, b) == IF b.error = NoErr THEN BatchRevalidate(f, l, TRUE) ELSE f

BatchInit ==
  /\ BatchIdle /\ NotifyIdle
  /\ ClassIdle /\ FmtIdle /\ HookIdle /\ ProtoIdle /\ StatusIdle /\ BrowserIdle /\ RiskIdle

BatchOther == <<classVars, fmtVars, hookVars, protoVars, statusVars, browserVars, riskVars,
               notifyVars>>

\* the component is rendered with another list: when the key changes to the
\* batch key the hook subscribes and revalidates with dedupe; when it stays
\* the same nothing else happens; under the null key the retry timer finds
\* no subscriber any more
SetLocations(l) ==
  /\ l # locations
  /\ locations' = l
  /\ batchFetch' = IF BatchKey(l) # BatchKey(locations)
                     THEN BatchRevalidate(batchFetch, l, TRUE) ELSE batchFetch
  /\ batchRetry' = (batchRetry /\ BatchKey(l) # "null")
  /\ UNCHANGED <<batch, BatchOther>>

\* refreshInterval elapses
BatchTick ==
  /\ batchFetch' = BatchPolled(batchFetch, locations, batch)
  /\ batchFetch' # batchFetch
  /\ UNCHANGED <<locations, batch, batchRetry, BatchOther>>

\* refresh(): mutate() of the key, without dedupe
BatchRefresh ==
  /\ batchFetch' = BatchRevalidate(batchFetch, locations, FALSE)
  /\ batchFetch' # batchFetch
  /\ UNCHANGED <<locations, batch, batchRetry, BatchOther>>

\* the request of the key answers: its forecasts are stored under the key
BatchOk ==
  /\ batchFetch.state = "flight"
  /\ batch' = [fetched |-> TRUE, for |-> batchFetch.for, error |-> NoErr]
  /\ batchFetch' = [batchFetch EXCEPT !.state = "fresh"]
  /\ UNCHANGED <<locations, batchRetry, BatchOther>>

\* the request of the key fails: the error is stored, the data kept, and a
\* retry armed if the hook is on the key
BatchFail ==
  /\ batchFetch.state = "flight"
  /\ batch' = [batch EXCEPT !.error = "network"]
  /\ batchFetch' = [batchFetch EXCEPT !.state = "none"]
  /\ batchRetry' = (BatchKey(locations) # "null")
  /\ UNCHANGED <<locations, BatchOther>>

\* a superseded request answers: a success is dropped, a failure is stored
BatchStale(ok) ==
  /\ batchFetch.old
  /\ batchFetch' = [batchFetch EXCEPT !.old = FALSE]
  /\ batch' = IF ok THEN batch ELSE [batch EXCEPT !.error = "network"]
  /\ UNCHANGED <<locations, batchRetry, BatchOther>>

\* dedupingInterval has passed since the success
BatchDedupeExpire ==
  /\ batchFetch.state = "fresh"
  /\ batchFetch' = [batchFetch EXCEPT !.state = "none"]
  /\ UNCHANGED <<locations, batch, batchRetry, BatchOther>>

\* the error-retry timer fires
BatchErrorRetry ==
  /\ batchRetry
  /\ batchRetry' = FALSE
  /\ batchFetch' = BatchRevalidate(batchFetch, locations, TRUE)
  /\ UNCHANGED <<locations, batch, BatchOther>>

BatchNext ==
  \/ \E l \in Lists : SetLocations(l)
  \/ BatchTick
  \/ BatchRefresh
  \/ BatchOk
  \/ BatchFail
  \/ \E ok \in BOOLEAN : BatchStale(ok)
  \/ BatchDedupeExpire
  \/ BatchErrorRetry

SpecBatch == BatchInit /\ [][BatchNext]_vars

\* C26: the forecasts useMultipleForecasts returns are those of the list it
\* is called with: after the list has changed the hook does not serve what
\* was fetched for another list.
C26_BatchMatchesList ==
  LET h == BatchResult(locations, batch)
  IN  h.forecasts.fetched => h.forecasts.for = locations

\* forecasts were fetched for one list and the hook is now called with
\* another list that is not empty
C26_Witness ==
  /\ batch.fetched /\ batch.for # locations /\ BatchKey(locations) # "null"
  /\ batchFetch.state = "none"


\* a step that calls the fetcher: a request of the key that was not there
BatchStarted ==
  /\ batchFetch'.state = "flight"
  /\ \/ batchFetch.state # "flight"
     \/ batchFetch'.for # batchFetch.for
     \/ batchFetch'.old /\ ~batchFetch.old

-----------------------------------------------------------------------------
(* Browser notifications of the alerts panel and of the prototype *)

MaxAlerts == 2

AlertLevels == {"unhealthy_sensitive", "unhealthy", "very_unhealthy", "hazardous"}

\* the alerts arrays a response can carry
AlertLists == UNION {[1..n -> AlertLevels] : n \in 0..MaxAlerts}

\* new Notification(...): what it was created for, by which program, and the
\* permission perm the browser held when it was created
Notification(by, for, perm) == [by |-> by, for |-> for, permission |-> perm]

\* Notification.requestPermission(): the browser asks only while the
\* permission is "default"; the user grants, denies or dismisses
requestPermission(answer) == IF permission = "default" THEN answer ELSE permission

\* the second effect of AlertsPanel: one notification per critical alert
\* when alerts?.alerts is there and notificationsEnabled
PanelEffect(data, enabled, perm) ==
  IF data.fetched /\ enabled
  THEN {Notification("panel", data.alerts[i], perm) :
          i \in {j \in DOMAIN data.alerts :
                   data.alerts[j] = "very_unhealthy" \/ data.alerts[j] = "hazardous"}}
  ELSE {}

\* sendNotification of the prototype
sendNotification(flag, for, perm) ==
  IF flag THEN {Notification("prototype", for, perm)} ELSE {}

\* the tail of loadAlerts of the prototype
loadAlertsNotify(alerts, flag, perm) ==
  IF flag /\ Len(alerts) > 0
  THEN UNION {sendNotification(flag, alerts[i], perm) :
                i \in {j \in DOMAIN alerts :
                         alerts[j] = "very_unhealthy" \/ alerts[j] = "hazardous"}}
  ELSE {}

\* both pages are open: the first effect of AlertsPanel and
\* initializeNotifications have read the permission the browser holds
NotifyInit ==
  /\ permission \in {"default", "granted", "denied"}
  /\ notificationsEnabled = (permission = "granted")
  /\ notificationPermission = (permission = "granted")
  /\ alertsData = NoAlerts /\ created = {}
  /\ ClassIdle /\ FmtIdle /\ HookIdle /\ ProtoIdle /\ StatusIdle /\ BrowserIdle
  /\ RiskIdle /\ BatchIdle

NotifyOther == <<classVars, fmtVars, hookVars, protoVars, statusVars, browserVars,
                 riskVars, batchVars>>

\* useAlerts delivers another alerts response: the second effect runs again
PanelAlerts(l) ==
  /\ alertsData # [fetched |-> TRUE, alerts |-> l]
  /\ alertsData' = [fetched |-> TRUE, alerts |-> l]
  /\ created' = PanelEffect(alertsData', notificationsEnabled, permission)
  /\ UNCHANGED <<permission, notificationsEnabled, notificationPermission, NotifyOther>>

\* the bell button of AlertsPanel; the second effect runs again when
\* notificationsEnabled changed
PanelRequestPermission(answer) ==
  /\ permission' = requestPermission(answer)
  /\ notificationsEnabled' = (permission' = "granted")
  /\ created' = IF notificationsEnabled' # notificationsEnabled
                THEN PanelEffect(alertsData, notificationsEnabled', permission')
                ELSE {}
  /\ UNCHANGED <<notificationPermission, alertsData, NotifyOther>>

\* loadAlerts of the prototype receives an alerts response
ProtoLoadAlerts(l) ==
  /\ created' = loadAlertsNotify(l, notificationPermission, permission)
  /\ UNCHANGED <<permission, notificationsEnabled, notificationPermission, alertsData,
                 NotifyOther>>

\* the Enable Notifications button of the prototype
ProtoRequestPermission(answer) ==
  /\ permission' = requestPermission(answer)
  /\ IF permission' = "granted"
     THEN /\ notificationPermission' = TRUE
          /\ created' = sendNotification(notificationPermission', "Notifications Enabled",
                                      permission')
     ELSE /\ created' = {}
          /\ UNCHANGED notificationPermission
  /\ UNCHANGED <<notificationsEnabled, alertsData, NotifyOther>>

\* the user changes the permission of the site in the settings of the browser
PermissionChanged(p) ==
  /\ p # permission
  /\ permission' = p
  /\ created' = {}
  /\ UNCHANGED <<notificationsEnabled, notificationPermission, alertsData, NotifyOther>>

NotifyNext ==
  \/ \E l \in AlertLists : PanelAlerts(l)
  \/ \E answer \in {"default", "granted", "denied"} : PanelRequestPermission(answer)
  \/ \E l \in AlertLists : ProtoLoadAlerts(l)
  \/ \E answer \in {"default", "granted", "denied"} : ProtoRequestPermission(answer)
  \/ \E p \in {"default", "granted", "denied"} : PermissionChanged(p)

SpecNotify == NotifyInit /\ [][NotifyNext]_vars

-----------------------------------------------------------------------------
(* Claims about browser notifications (under SpecNotify) *)

\* C28: a browser notification is created only while notification permission
\* is granted and only for an alert whose level is very_unhealthy or
\* hazardous.
C28_NotificationOnlyCritical ==
  \A n \in created :
    /\ n.permission = "granted"
    /\ n.for \in {"very_unhealthy", "hazardous"}

\* the panel and the prototype each create a notification for a critical
\* alert while permission is granted
C28_Witness ==
  \E n \in created :
    /\ n.for \in {"very_unhealthy", "hazardous"}
    /\ n.permission = "granted"
    /\ permission = "granted"


====
